---- MODULE Spec2Model ----
(***************************************************************************)
(* Row collections of tinyDB: the in-memory ByteRowCollection and the      *)
(* file-backed FileRowCollection, with the row codec they share.           *)
(* Buffers are sequences of bytes; the code's 0-based offsets are kept and *)
(* translated by At and Slice.                                             *)
(***************************************************************************)
EXTENDS Integers, Sequences, FiniteSets, TLC

VARIABLES row_data, watermark, file, blobs, last, undo

vars == <<row_data, watermark, file, blobs, last, undo>>

\* ------------------------------------------------------------------------
\* Bounds of the model
\* ------------------------------------------------------------------------

\* the largest row id (and slot position) a call is given
MaxId == 1

\* ------------------------------------------------------------------------
\* Byte buffers
\* ------------------------------------------------------------------------

Min(a, b) == IF a <= b THEN a ELSE b

Max(a, b) == IF a >= b THEN a ELSE b

\* buffer[off] with the code's 0-based offset
At(buffer, off) == buffer[off + 1]

\* buffer[a..b] (half-open, 0-based)
Slice(buffer, a, b) == SubSeq(buffer, a + 1, b)

Zeros(n) == [i \in 1..n |-> 0]

\* Vec::resize(capacity, 0u8): truncates or pads with zeros
Resize(buf, capacity) ==
    IF Len(buf) >= capacity THEN SubSeq(buf, 1, capacity)
    ELSE buf \o Zeros(capacity - Len(buf))

RECURSIVE BigEndian(_, _)
\* the w-byte big-endian encoding of n (usize/u64::to_be_bytes)
BigEndian(n, w) ==
    IF w = 0 THEN <<>> ELSE Append(BigEndian(n \div 256, w - 1), n % 256)

RECURSIVE FromBigEndian(_)
\* u64::from_be_bytes
FromBigEndian(bytes) ==
    IF bytes = <<>> THEN 0
    ELSE FromBigEndian(SubSeq(bytes, 1, Len(bytes) - 1)) * 256 + bytes[Len(bytes)]

RECURSIVE Flatten(_)
\* concatenation of a sequence of buffers (flat_map / extend)
Flatten(bufs) ==
    IF bufs = <<>> THEN <<>> ELSE Head(bufs) \o Flatten(Tail(bufs))

\* ------------------------------------------------------------------------
\* Typed values and data types
\* ------------------------------------------------------------------------

Null == [t |-> "Null", v |-> <<>>]

StringValue(s) == [t |-> "StringValue", v |-> s]

U8Value(n) == [t |-> "U8Value", v |-> <<n>>]

Boolean(b) == [t |-> "Boolean", v |-> <<IF b THEN 1 ELSE 0>>]

\* the empty array, the only array of the model
ArrayValue == [t |-> "ArrayValue", v |-> <<>>]

ErrorValue(kind) == [t |-> "ErrorValue", v |-> kind]

\* an array of the given items, each a byte
ArrayOf(items) == [t |-> "ArrayValue", v |-> items]

Binary(bytes) == [t |-> "Binary", v |-> bytes]

\* size_of::<usize>(): the width of a length prefix, a row id and a pointer
PTR_LEN == 8

ArrayType(size) == [k |-> "ArrayType", size |-> size]

StringType(size) == [k |-> "StringType", size |-> size]

U8Type == [k |-> "U8Kind", size |-> 1]

ASCIIType(size) == [k |-> "ASCIIType", size |-> size]

BinaryType(size) == [k |-> "BinaryType", size |-> size]

BooleanType == [k |-> "BooleanType", size |-> 1]

\* DataType::compute_fixed_size: the inline width, field metadata included
compute_fixed_size(dt) ==
    (CASE dt.k = "ArrayType" -> dt.size
       [] dt.k = "ASCIIType" -> dt.size + PTR_LEN
       [] dt.k = "BinaryType" -> dt.size
       [] dt.k = "BooleanType" -> 1
       [] dt.k = "StringType" -> dt.size + PTR_LEN
       [] dt.k = "U8Kind" -> 1) + 1

\* Row::overhead: row metadata (1 byte) and row id
overhead == 1 + PTR_LEN

\* the declared types of the table's columns, in order:
\* (tags: Array(8), symbol: String(2), qty: u8)
ColumnTypes == <<ArrayType(8), StringType(2), U8Type>>

RECURSIVE OffsetOf(_)
\* the precomputed offset of column i: the columns follow the overhead
\* back to back
OffsetOf(i) ==
    IF i = 1 THEN overhead
    ELSE OffsetOf(i - 1) + compute_fixed_size(ColumnTypes[i - 1])

columns ==
    [i \in 1..Len(ColumnTypes) |->
        [data_type |-> ColumnTypes[i],
         offset |-> OffsetOf(i),
         max_physical_size |-> compute_fixed_size(ColumnTypes[i])]]

ColumnIds == 1..Len(columns)

RECURSIVE OffsetIn(_, _)
\* the offset of column i of a column list: the first follows the overhead,
\* each next one the column before it
OffsetIn(types, i) ==
    IF i = 1 THEN overhead
    ELSE OffsetIn(types, i - 1) + compute_fixed_size(types[i - 1])

\* TableColumn::from_columns: the physical columns of a column list
from_columns(types) ==
    [i \in 1..Len(types) |->
        [data_type |-> types[i],
         offset |-> OffsetIn(types, i),
         max_physical_size |-> compute_fixed_size(types[i])]]

RECURSIVE SumPhysical(_, _)
SumPhysical(cols, i) ==
    IF i = 0 THEN 0 ELSE SumPhysical(cols, i - 1) + cols[i].max_physical_size

\* a faulty record size: the overhead is left out
RecordSizeWithoutOverhead(cols) == SumPhysical(cols, Len(cols))

\* Row::compute_record_size of any column list
RecordSizeOf(cols) == overhead + SumPhysical(cols, Len(cols))

RECURSIVE SumSizes(_)
SumSizes(i) == IF i = 0 THEN 0 ELSE SumSizes(i - 1) + columns[i].max_physical_size

\* Row::compute_record_size
compute_record_size == overhead + SumSizes(Len(columns))

record_size == compute_record_size

\* ------------------------------------------------------------------------
\* Row and field metadata
\* ------------------------------------------------------------------------

\* RowMetadata::encode: the is_allocated flag is the top bit of byte 0
RowMetadataEncode(is_allocated) == IF is_allocated THEN 128 ELSE 0

\* RowMetadata::from_bytes / decode
RowMetadataDecode(byte) == [is_allocated |-> (byte \div 128) % 2 = 1]

\* FieldMetadata::encode: is_active is the top bit, is_external the next
FieldMetadataEncode(is_active, is_external) ==
    (IF is_active THEN 128 ELSE 0) + (IF is_external THEN 64 ELSE 0)

\* FieldMetadata::decode
FieldMetadataDecode(byte) ==
    [is_active |-> (byte \div 128) % 2 = 1,
     is_external |-> (byte \div 64) % 2 = 1]

\* codec::encode_row_id
encode_row_id(id) == BigEndian(id, PTR_LEN)

\* codec::decode_row_id
decode_row_id(buffer, offset) == FromBigEndian(Slice(buffer, offset, offset + PTR_LEN))

\* ------------------------------------------------------------------------
\* Value codec
\* ------------------------------------------------------------------------

\* TypedValue::encode: the bytes of a value, whatever column it goes to
TypedValueEncode(value) ==
    CASE value.t = "Null" -> <<>>
      [] value.t = "StringValue" -> BigEndian(Len(value.v), PTR_LEN) \o value.v
      [] value.t = "ArrayValue" -> BigEndian(Len(value.v), PTR_LEN) \o value.v
      [] value.t = "Binary" -> BigEndian(Len(value.v), PTR_LEN) \o value.v
      [] OTHER -> value.v

\* codec::decode_string: the length prefix, then at most max_size bytes
decode_string(buffer, offset, max_size) ==
    LET n == FromBigEndian(Slice(buffer, offset, offset + PTR_LEN))
        a == offset + PTR_LEN
    IN  Slice(buffer, a, a + Min(n, max_size))

\* DataType::decode: type-directed, the bytes of an array are not read
DataTypeDecode(data_type, buffer, offset) ==
    CASE data_type.k = "ArrayType" -> ArrayValue
      [] data_type.k = "BinaryType" -> Binary(<<>>)
      [] data_type.k = "BooleanType" -> Boolean(At(buffer, offset) = 1)
      [] data_type.k = "StringType" ->
            StringValue(decode_string(buffer, offset, data_type.size))
      [] data_type.k = "U8Kind" -> U8Value(At(buffer, offset))

\* Row::decode_value / DataType::decode_field_value
decode_value(data_type, buffer, offset) ==
    IF FieldMetadataDecode(At(buffer, offset)).is_active
    THEN DataTypeDecode(data_type, buffer, offset + 1)
    ELSE Null

\* ------------------------------------------------------------------------
\* Rows (rows.rs)
\* ------------------------------------------------------------------------

Row(id, values) == [id |-> id, values |-> values]

\* Row::empty
RowEmpty == Row(0, [i \in ColumnIds |-> Null])

\* Row::with_row_id
with_row_id(row, id) == Row(id, row.values)

\* FieldMetadata::new(is_active)
FieldMetadata(is_active) == [is_active |-> is_active, is_external |-> FALSE]

\* Row::encode_value
encode_value(value, metadata, capacity) ==
    Resize(<<FieldMetadataEncode(metadata.is_active, metadata.is_external)>>
             \o TypedValueEncode(value), capacity)

\* Row::encode
RowEncode(row) ==
    Resize(<<RowMetadataEncode(TRUE)>> \o encode_row_id(row.id)
             \o Flatten([i \in ColumnIds |->
                           encode_value(row.values[i], FieldMetadata(TRUE),
                                        columns[i].max_physical_size)]),
           compute_record_size)

\* Row::decode
RowDecode(buffer) ==
    IF Len(buffer) = 0
    THEN [row |-> RowEmpty, metadata |-> [is_allocated |-> FALSE]]
    ELSE [row |-> Row(decode_row_id(buffer, 1),
                      [i \in ColumnIds |->
                         decode_value(columns[i].data_type, buffer, columns[i].offset)]),
          metadata |-> RowMetadataDecode(At(buffer, 0))]

\* ------------------------------------------------------------------------
\* ByteRowCollection (byte_row_collection.rs)
\* A call that indexes outside a vector panics: its result is PANIC and the
\* collection is left as it was.
\* ------------------------------------------------------------------------

PANIC == [panic |-> TRUE]

Ok(n) == [ok |-> n]

ByteState(rd, wm, result) == [row_data |-> rd, watermark |-> wm, result |-> result]

\* ByteRowCollection::new
ByteNew(rows) == ByteState(rows, Len(rows), Ok(0))

\* ByteRowCollection::len
ByteLen(wm) == wm

\* Vec<Vec<u8>>::resize(n, vec![])
ResizeRows(rd, n) ==
    IF Len(rd) >= n THEN SubSeq(rd, 1, n)
    ELSE rd \o [i \in 1..(n - Len(rd)) |-> <<>>]

\* a faulty overwrite: the watermark always becomes id + 1
ByteOverwriteLowersWatermark(rd, wm, id, row) ==
    LET sized == IF Len(rd) <= id THEN ResizeRows(rd, id + 1) ELSE rd
    IN  ByteState([sized EXCEPT ![id + 1] = RowEncode(row)], id + 1, Ok(1))

\* ByteRowCollection::overwrite
ByteOverwrite(rd, wm, id, row) ==
    LET sized == IF Len(rd) <= id THEN ResizeRows(rd, id + 1) ELSE rd
    IN  ByteState([sized EXCEPT ![id + 1] = RowEncode(row)],
                  IF wm <= id THEN id + 1 ELSE wm,
                  Ok(1))

\* a faulty overwrite_metadata: the flag written is always is_allocated = true
ByteOverwriteMetadataAllocates(rd, wm, id, is_allocated) ==
    IF id >= Len(rd) \/ Len(rd[id + 1]) = 0
    THEN ByteState(rd, wm, PANIC)
    ELSE ByteState([rd EXCEPT ![id + 1][1] = RowMetadataEncode(TRUE)], wm, Ok(1))

\* a faulty overwrite_metadata: the rows after id are dropped
ByteOverwriteMetadataTruncates(rd, wm, id, is_allocated) ==
    IF id >= Len(rd) \/ Len(rd[id + 1]) = 0
    THEN ByteState(rd, wm, PANIC)
    ELSE ByteState([SubSeq(rd, 1, id + 1) EXCEPT ![id + 1][1] =
                        RowMetadataEncode(is_allocated)],
                   id + 1, Ok(1))

\* ByteRowCollection::overwrite_metadata
ByteOverwriteMetadata(rd, wm, id, is_allocated) ==
    IF id >= Len(rd) \/ Len(rd[id + 1]) = 0
    THEN ByteState(rd, wm, PANIC)
    ELSE ByteState([rd EXCEPT ![id + 1][1] = RowMetadataEncode(is_allocated)], wm, Ok(1))

\* a faulty resize: the high-water mark is left as it was
ByteResizeKeepingWatermark(rd, wm, new_size) ==
    ByteState(ResizeRows(rd, new_size), wm, Ok(0))

\* ByteRowCollection::resize
ByteResize(rd, wm, new_size) == ByteState(ResizeRows(rd, new_size), new_size, Ok(0))

\* ByteRowCollection::read
ByteRead(rd, id) == IF id >= Len(rd) THEN PANIC ELSE RowDecode(rd[id + 1])

\* ByteRowCollection::read_field
ByteReadField(rd, id, column_id) ==
    LET column == columns[column_id]
    IN  IF id >= Len(rd) \/ Len(rd[id + 1]) < column.offset + column.max_physical_size
        THEN PANIC
        ELSE decode_value(column.data_type,
                          Slice(rd[id + 1], column.offset,
                                column.offset + column.max_physical_size), 0)

RECURSIVE AllocatedRows(_)
\* the rows of the buffers whose metadata is allocated, in order
AllocatedRows(bufs) ==
    IF bufs = <<>> THEN <<>>
    ELSE LET d == RowDecode(Head(bufs))
         IN  (IF d.metadata.is_allocated THEN <<d.row>> ELSE <<>>)
                 \o AllocatedRows(Tail(bufs))

\* ByteRowCollection::read_range over from..to (half-open)
ByteReadRange(rd, from, to) ==
    IF from > to \/ to > Len(rd) THEN PANIC
    ELSE [rows |-> AllocatedRows(Slice(rd, from, to))]

\* ByteRowCollection::encode
ByteEncode(rd) == Flatten(rd)

RECURSIVE Chunks(_, _)
\* slice::chunks(n): pieces of n bytes, the last one shorter
Chunks(bytes, n) ==
    IF bytes = <<>> THEN <<>>
    ELSE IF Len(bytes) <= n THEN <<bytes>>
    ELSE <<SubSeq(bytes, 1, n)>> \o Chunks(SubSeq(bytes, n + 1, Len(bytes)), n)

\* ByteRowCollection::decode
ByteDecode(bytes) == ByteNew(Chunks(bytes, compute_record_size))

\* ------------------------------------------------------------------------
\* BLOB side-store: the cells appended so far, each holding one value
\* ------------------------------------------------------------------------

\* [len(u64) | kind(u8) | checksum(u64)]: the header of a BLOB cell
BlobHeaderSize == PTR_LEN + 1 + PTR_LEN

RECURSIVE BlobSize(_)
\* the length of the .blob file
BlobSize(bl) ==
    IF bl = <<>> THEN 0
    ELSE BlobSize(SubSeq(bl, 1, Len(bl) - 1))
           + BlobHeaderSize + Len(TypedValueEncode(bl[Len(bl)]))

\* BLOBStore::read: the value of the cell that starts at offset
BlobRead(bl, offset) ==
    LET hits == {k \in 1..Len(bl) : BlobSize(SubSeq(bl, 1, k - 1)) = offset}
    IN  IF hits = {} THEN ErrorValue("Exact") ELSE bl[CHOOSE k \in hits : TRUE]

\* DataType::encode: only an Array column refuses a value of another type
DataTypeEncode(data_type, value) ==
    IF data_type.k = "ArrayType" /\ value.t # "ArrayValue"
    THEN [err |-> "TypeMismatch"]
    ELSE Ok(TypedValueEncode(value))

\* DataType::encode_field: a failed encoding becomes an empty payload
DataTypeEncodeField(data_type, value, metadata, capacity) ==
    LET enc == DataTypeEncode(data_type, value)
    IN  Resize(<<FieldMetadataEncode(metadata.is_active, metadata.is_external)>>
                 \o (IF "ok" \in DOMAIN enc THEN enc.ok ELSE <<>>),
               capacity)

\* BLOBStore::encode_field: the field inline when it fits its slot, else
\* the value goes to a new BLOB cell and the slot holds its offset
BlobEncodeField(bl, column, value) ==
    LET enc == DataTypeEncode(column.data_type, value)
        capacity == column.max_physical_size
    IN  IF "err" \in DOMAIN enc THEN [err |-> enc.err, blobs |-> bl]
        ELSE IF 1 + Len(enc.ok) <= capacity
        THEN [ok |-> DataTypeEncodeField(column.data_type, value,
                                         FieldMetadata(value # Null), capacity),
              blobs |-> bl]
        ELSE [ok |-> Resize(<<FieldMetadataEncode(TRUE, TRUE)>>
                              \o BigEndian(BlobSize(bl), PTR_LEN), capacity),
              blobs |-> Append(bl, value)]

\* ------------------------------------------------------------------------
\* FileRowCollection (file_row_collection.rs)
\* ------------------------------------------------------------------------

FileState(f, bl, result) == [file |-> f, blobs |-> bl, result |-> result]

RowsAffected(n) == [t |-> "RowsAffected", v |-> <<n>>]

Ack == [t |-> "Ack", v |-> <<>>]

\* RowEncoding::write_at (pwrite): a write past the end leaves a gap of zeros
write_at(f, offset, bytes) ==
    IF bytes = <<>> THEN f
    ELSE [i \in 1..Max(Len(f), offset + Len(bytes)) |->
            IF i > offset /\ i <= offset + Len(bytes) THEN bytes[i - offset]
            ELSE IF i <= Len(f) THEN f[i] ELSE 0]

\* RowEncoding::read_at (pread into a zeroed buffer of count bytes)
read_at(f, offset, count) ==
    [i \in 1..count |-> IF offset + i <= Len(f) THEN f[offset + i] ELSE 0]

\* RowCollection::convert_rowid_to_offset
convert_rowid_to_offset(id) == id * record_size

\* FileRowCollection::empty_cell
empty_cell(column) == Zeros(column.max_physical_size)

\* FileRowCollection::len
FileLen(f) == Len(f) \div record_size

RECURSIVE EncodeFields(_, _, _)
\* the flat_map of FileRowCollection::overwrite_row over the columns from i
\* on: a field that fails to encode contributes no bytes
EncodeFields(bl, values, i) ==
    IF i > Len(columns) THEN [bytes |-> <<>>, blobs |-> bl]
    ELSE LET e == BlobEncodeField(bl, columns[i], values[i])
             rest == EncodeFields(e.blobs, values, i + 1)
         IN  [bytes |-> (IF "ok" \in DOMAIN e THEN e.ok ELSE <<>>) \o rest.bytes,
              blobs |-> rest.blobs]

\* FileRowCollection::overwrite_row
FileOverwriteRow(f, bl, id, row) ==
    LET fields == EncodeFields(bl, row.values, 1)
        encoded == Resize(<<RowMetadataEncode(TRUE)>> \o encode_row_id(row.id)
                            \o fields.bytes, record_size)
    IN  FileState(write_at(f, convert_rowid_to_offset(id), encoded),
                  fields.blobs, RowsAffected(1))

\* a faulty overwrite_row_metadata: the whole record is written, zeroed after
\* the metadata byte
FileOverwriteRowMetadataClears(f, bl, id, is_allocated) ==
    FileState(write_at(f, convert_rowid_to_offset(id),
                       <<RowMetadataEncode(is_allocated)>> \o Zeros(record_size - 1)),
              bl, RowsAffected(1))

\* FileRowCollection::overwrite_row_metadata
FileOverwriteRowMetadata(f, bl, id, is_allocated) ==
    FileState(write_at(f, convert_rowid_to_offset(id),
                       <<RowMetadataEncode(is_allocated)>>),
              bl, RowsAffected(1))

\* a faulty overwrite_field: the column's offset is left out of the position
FileOverwriteFieldAtRowStart(f, bl, id, column_id, new_value) ==
    LET column == columns[column_id]
        offset == convert_rowid_to_offset(id)
        e == BlobEncodeField(bl, column, new_value)
        buffer == IF "ok" \in DOMAIN e THEN e.ok ELSE empty_cell(column)
    IN  FileState(write_at(f, offset, buffer), e.blobs, RowsAffected(1))

\* FileRowCollection::overwrite_field
FileOverwriteField(f, bl, id, column_id, new_value) ==
    LET column == columns[column_id]
        offset == convert_rowid_to_offset(id) + column.offset
        e == BlobEncodeField(bl, column, new_value)
        buffer == IF "ok" \in DOMAIN e THEN e.ok ELSE empty_cell(column)
    IN  FileState(write_at(f, offset, buffer), e.blobs, RowsAffected(1))

\* FileRowCollection::resize (File::set_len)
FileResize(f, bl, new_size) == FileState(Resize(f, new_size * record_size), bl, Ack)

\* a faulty decode of a column: the slot is always decoded inline
FileDecodeColumnInline(bl, buffer, column) ==
    decode_value(column.data_type, buffer, column.offset)

\* the value of one column in FileRowCollection::read_row
FileDecodeColumn(bl, buffer, column) ==
    IF FieldMetadataDecode(At(buffer, column.offset)).is_external
    THEN LET ptr == IF FieldMetadataDecode(At(buffer, column.offset)).is_active
                    THEN FromBigEndian(Slice(buffer, column.offset + 1,
                                             column.offset + 1 + PTR_LEN))
                    ELSE 0
         IN  BlobRead(bl, ptr)
    ELSE decode_value(column.data_type, buffer, column.offset)

\* FileRowCollection::read_row
FileReadRow(f, bl, id) ==
    LET buffer == read_at(f, convert_rowid_to_offset(id), record_size)
    IN  [row |-> Row(decode_row_id(buffer, 1),
                     [i \in ColumnIds |-> FileDecodeColumn(bl, buffer, columns[i])]),
         metadata |-> RowMetadataDecode(At(buffer, 0))]

\* FileRowCollection::read_field
FileReadField(f, id, column_id) ==
    LET column == columns[column_id]
        buffer == read_at(f, convert_rowid_to_offset(id) + column.offset,
                          column.max_physical_size)
    IN  decode_value(column.data_type, buffer, 0)

RECURSIVE FileRangeRows(_, _, _, _)
\* the allocated rows among the rows from..to (half-open), in order
FileRangeRows(f, bl, from, to) ==
    IF from >= to THEN <<>>
    ELSE LET d == FileReadRow(f, bl, from)
         IN  (IF d.metadata.is_allocated THEN <<d.row>> ELSE <<>>)
                 \o FileRangeRows(f, bl, from + 1, to)

\* RowCollection::read_range on the file-backed collection
FileReadRange(f, bl, from, to) == [rows |-> FileRangeRows(f, bl, from, to)]

\* ------------------------------------------------------------------------
\* The calls a client makes on a pair of collections with the same schema,
\* one in memory and one file-backed, each call applied to both
\* ------------------------------------------------------------------------

Ids == 0..MaxId

\* the sizes resize is called with, and the ends of ranges
Sizes == 0..(MaxId + 1)

\* a row that fits its columns
Quote == <<ArrayValue, StringValue(<<49>>), U8Value(7)>>

\* a row with a null field
NullQuote == <<ArrayValue, Null, U8Value(9)>>

\* the rows written; the id a caller puts in a row is its own choice
Rows == {Row(0, Quote), Row(1, NullQuote)}

\* the rows appended: append sets the id
AppendRows == {Row(0, NullQuote)}

NoUndo == [valid |-> FALSE]

\* the last call made: its name, its id argument and what each collection
\* returned
Call(op, id, b, f) == [op |-> op, id |-> id, b |-> b, f |-> f]

\* FileRowCollection::create_table and ByteRowCollection::new, both empty
Init ==
    /\ row_data = ByteNew(<<>>).row_data
    /\ watermark = ByteNew(<<>>).watermark
    /\ file = <<>>
    /\ blobs = <<>>
    /\ last = Call("new", 0, Ok(0), Ok(0))
    /\ undo = NoUndo

\* overwrite(id, row) on both collections
Overwrite(id, row) ==
    LET b == ByteOverwrite(row_data, watermark, id, row)
        f == FileOverwriteRow(file, blobs, id, row)
    IN  /\ row_data' = b.row_data
        /\ watermark' = b.watermark
        /\ file' = f.file
        /\ blobs' = f.blobs
        /\ last' = Call("overwrite", id, b.result, f.result)
        /\ undo' = NoUndo

\* RowCollection::append: overwrite(len(), row) with the row id set to len()
AppendRow(row) ==
    LET bid == ByteLen(watermark)
        fid == FileLen(file)
        b == ByteOverwrite(row_data, watermark, bid, with_row_id(row, bid))
        f == FileOverwriteRow(file, blobs, fid, with_row_id(row, fid))
    IN  /\ bid <= MaxId /\ fid <= MaxId
        /\ row_data' = b.row_data
        /\ watermark' = b.watermark
        /\ file' = f.file
        /\ blobs' = f.blobs
        /\ last' = Call("append", fid, b.result, f.result)
        /\ undo' = NoUndo

\* the record of slot id as stored, empty when the slot does not exist
ByteRecord(rd, id) == IF id < Len(rd) THEN rd[id + 1] ELSE <<>>

FileRecord(f, id) == read_at(f, convert_rowid_to_offset(id), record_size)

\* RowCollection::delete: the row metadata overwritten with is_allocated =
\* false; undo remembers the record of the slot and what read(id) returned
\* before the call
Delete(id) ==
    LET b == ByteOverwriteMetadata(row_data, watermark, id, FALSE)
        f == FileOverwriteRowMetadata(file, blobs, id, FALSE)
    IN  /\ row_data' = b.row_data
        /\ watermark' = b.watermark
        /\ file' = f.file
        /\ blobs' = f.blobs
        /\ last' = Call("delete", id, b.result, f.result)
        /\ undo' = [valid |-> TRUE, id |-> id,
                    b |-> ByteRecord(row_data, id), f |-> FileRecord(file, id),
                    bread |-> ByteRead(row_data, id),
                    fread |-> FileReadRow(file, blobs, id)]

\* RowCollection::undelete: the row metadata overwritten with is_allocated =
\* true; undo is kept when this undoes the delete just made
Undelete(id) ==
    LET b == ByteOverwriteMetadata(row_data, watermark, id, TRUE)
        f == FileOverwriteRowMetadata(file, blobs, id, TRUE)
    IN  /\ row_data' = b.row_data
        /\ watermark' = b.watermark
        /\ file' = f.file
        /\ blobs' = f.blobs
        /\ last' = Call("undelete", id, b.result, f.result)
        /\ undo' = IF undo.valid /\ undo.id = id THEN undo ELSE NoUndo

\* resize(new_size) on both collections
ResizeTo(new_size) ==
    LET b == ByteResize(row_data, watermark, new_size)
        f == FileResize(file, blobs, new_size)
    IN  /\ row_data' = b.row_data
        /\ watermark' = b.watermark
        /\ file' = f.file
        /\ blobs' = f.blobs
        /\ last' = Call("resize", new_size, b.result, f.result)
        /\ undo' = NoUndo

Next ==
    \/ \E id \in Ids, row \in Rows : Overwrite(id, row)
    \/ \E row \in AppendRows : AppendRow(row)
    \/ \E id \in Ids : Delete(id)
    \/ \E id \in Ids : Undelete(id)
    \/ \E new_size \in Sizes : ResizeTo(new_size)

Spec == Init /\ [][Next]_vars

\* ------------------------------------------------------------------------
\* Properties of the pair of collections
\* ------------------------------------------------------------------------

\* the positions a read or a range is asked about: one past the largest id
Positions == 0..(MaxId + 1)

\* C2: decode(S, C.encode()) equals the in-memory collection C: the same
\* slots with the same bytes and the same high-water mark, in every state
\* reached through new, overwrite, overwrite_metadata and resize
EncodeDecodeIsIdentity ==
    LET d == ByteDecode(ByteEncode(row_data))
    IN  d.row_data = row_data /\ d.watermark = watermark

RECURSIVE ByteReadsWithout(_, _, _, _)
\* the rows single reads report allocated at the positions from..to
\* (half-open) other than id, in ascending position
ByteReadsWithout(rd, from, to, id) ==
    IF from >= to THEN <<>>
    ELSE (IF from # id /\ ByteRead(rd, from).metadata.is_allocated
          THEN <<ByteRead(rd, from).row>> ELSE <<>>)
             \o ByteReadsWithout(rd, from + 1, to, id)

RECURSIVE FileReadsWithout(_, _, _, _, _)
FileReadsWithout(f, bl, from, to, id) ==
    IF from >= to THEN <<>>
    ELSE (IF from # id /\ FileReadRow(f, bl, from).metadata.is_allocated
          THEN <<FileReadRow(f, bl, from).row>> ELSE <<>>)
             \o FileReadsWithout(f, bl, from + 1, to, id)

UndeleteRestoresRow ==
    (last.op = "undelete" /\ undo.valid) =>
        /\ (undo.bread # PANIC /\ undo.bread.metadata.is_allocated) =>
              /\ ByteRecord(row_data, last.id) = undo.b
              /\ ByteRead(row_data, last.id) = undo.bread
              /\ ByteReadRange(row_data, last.id, last.id + 1)
                     = [rows |-> <<undo.bread.row>>]
        /\ undo.fread.metadata.is_allocated =>
              /\ FileRecord(file, last.id) = undo.f
              /\ FileReadRow(file, blobs, last.id) = undo.fread
              /\ FileReadRange(file, blobs, last.id, last.id + 1)
                     = [rows |-> <<undo.fread.row>>]

\* an undelete right after the delete of an allocated row with a null field
UndeleteRestoresRowCase ==
    /\ last.op = "undelete" /\ undo.valid /\ last.b = Ok(1)
    /\ undo.bread # PANIC /\ undo.bread.metadata.is_allocated
    /\ undo.fread.metadata.is_allocated
    /\ undo.fread.row.values[2] = Null

\* C5: a delete(id) of a row of the collection (id < len()) leaves len() as
\* it was and, for every other position, read returns the same row id,
\* values and metadata as before
DeleteLeavesOthers ==
    [][last'.op = "delete" =>
          /\ last'.id < ByteLen(watermark) =>
                /\ ByteLen(watermark') = ByteLen(watermark)
                /\ \A p \in Positions \ {last'.id} :
                      ByteRead(row_data', p) = ByteRead(row_data, p)
          /\ last'.id < FileLen(file) =>
                /\ FileLen(file') = FileLen(file)
                /\ \A p \in Positions \ {last'.id} :
                      FileReadRow(file', blobs', p) = FileReadRow(file, blobs, p)]_vars

\* a delete of the second of two rows, the first allocated with row id 1
DeleteLeavesOthersCase ==
    /\ last.op = "delete" /\ last.id = 1 /\ last.b = Ok(1)
    /\ ByteLen(watermark) = 2 /\ FileLen(file) = 2
    /\ ByteRead(row_data, 0).metadata.is_allocated
    /\ FileReadRow(file, blobs, 0).row.id = 1

\* C6: overwrite(id, row) stores a record of record_size bytes at position
\* id, reports one row affected and leaves len() = max(previous len(),
\* id + 1); append, overwrite at len() with the row id set to len(), raises
\* len() by one and stores the previous len() as the row id
OverwriteWritesRecord ==
    [][/\ last'.op = "overwrite" =>
             /\ last'.b = Ok(1) /\ last'.f = RowsAffected(1)
             /\ Len(ByteRecord(row_data', last'.id)) = record_size
             /\ ByteRead(row_data', last'.id).metadata.is_allocated
             /\ ByteLen(watermark') = Max(ByteLen(watermark), last'.id + 1)
             /\ Len(file') >= convert_rowid_to_offset(last'.id) + record_size
             /\ FileReadRow(file', blobs', last'.id).metadata.is_allocated
             /\ FileLen(file') = Max(FileLen(file), last'.id + 1)
       /\ last'.op = "append" =>
             /\ last'.b = Ok(1) /\ last'.f = RowsAffected(1)
             /\ ByteLen(watermark') = ByteLen(watermark) + 1
             /\ ByteRead(row_data', ByteLen(watermark)).row.id = ByteLen(watermark)
             /\ FileLen(file') = FileLen(file) + 1
             /\ FileReadRow(file', blobs', FileLen(file)).row.id = FileLen(file)]_vars

\* an overwrite below the high-water mark, with the last row still in place
OverwriteWritesRecordCase ==
    /\ last.op = "overwrite" /\ last.id = 0
    /\ ByteLen(watermark) = 2 /\ FileLen(file) = 2
    /\ ByteRead(row_data, 1).metadata.is_allocated

\* C7: for every written slot at position p, the row id stored inside the
\* record equals p; a slot of the in-memory collection is written when it
\* holds a record, a slot of the file when it lies within the file and is
\* allocated
StoredIdIsPosition ==
    \A p \in Ids :
        /\ ByteRecord(row_data, p) # <<>> => decode_row_id(ByteRecord(row_data, p), 1) = p
        /\ (Len(file) >= convert_rowid_to_offset(p) + record_size
              /\ FileReadRow(file, blobs, p).metadata.is_allocated)
              => decode_row_id(FileRecord(file, p), 1) = p

\* C8: the in-memory and the file-backed collection report the same len()
\* and return the same row and metadata from read, the same value from
\* read_field and the same rows from read_range, at every position up to
\* one past the largest id written
BackingsAgree ==
    /\ ByteLen(watermark) = FileLen(file)
    /\ \A p \in Positions : ByteRead(row_data, p) = FileReadRow(file, blobs, p)
    /\ \A p \in Positions, c \in ColumnIds :
          ByteReadField(row_data, p, c) = FileReadField(file, p, c)
    /\ \A from \in Positions, to \in Positions :
          from <= to =>
              ByteReadRange(row_data, from, to) = FileReadRange(file, blobs, from, to)

\* ------------------------------------------------------------------------
\* One row through the codec: from_rows of the row, then read(0), that is
\* Row::decode(row.encode(), columns)
\* ------------------------------------------------------------------------

\* row ids: the ids of the calls and one that needs two bytes
CodecIds == Ids \cup {256}

\* the values each column may hold, null among them
ArrayCells == {Null, ArrayValue}

StringCells == {Null, StringValue(<<>>), StringValue(<<49>>), StringValue(<<49, 50>>)}

U8Cells == {Null, U8Value(0), U8Value(7), U8Value(255)}

CodecRows ==
    {Row(id, <<a, s, n>>) : id \in CodecIds, a \in ArrayCells, s \in StringCells, n \in U8Cells}

InitRow ==
    /\ row_data = <<>>
    /\ watermark = 0
    /\ file = <<>>
    /\ blobs = <<>>
    /\ last \in {[op |-> "row", row |-> row] : row \in CodecRows}
    /\ undo = NoUndo

\* ByteRowCollection::from_rows(vec![row])
FromRows ==
    /\ last.op = "row"
    /\ row_data' = ByteNew(<<RowEncode(last.row)>>).row_data
    /\ watermark' = ByteNew(<<RowEncode(last.row)>>).watermark
    /\ last' = [op |-> "from_rows", row |-> last.row]
    /\ UNCHANGED <<file, blobs, undo>>

\* read(0) on the collection of the one row
ReadBack ==
    /\ last.op = "from_rows"
    /\ last' = [op |-> "read", row |-> last.row, out |-> ByteRead(row_data, 0)]
    /\ UNCHANGED <<row_data, watermark, file, blobs, undo>>

NextRow == FromRows \/ ReadBack

SpecRow == InitRow /\ [][NextRow]_vars

\* C1: Row::decode(r.encode(), S) returns r, the same row id and the same
\* value in every column, with metadata is_allocated = true
RowRoundTrip ==
    last.op = "read" =>
        last.out = [row |-> last.row, metadata |-> [is_allocated |-> TRUE]]

\* ------------------------------------------------------------------------
\* Writes to the file-backed collection alone: whole rows and single fields,
\* with values that fit, that are longer than the column and that are of
\* another type than the column
\* ------------------------------------------------------------------------

\* the most calls made on the file
MaxCalls == 3

\* a string longer than the String(2) column
Long == StringValue(<<49, 50, 51>>)

\* a row whose first value is a string, for the Array column
Mismatched == <<Long, StringValue(<<49>>), U8Value(7)>>

FieldRows == {Row(0, Quote), Row(1, Mismatched)}

\* the (column, value) pairs overwrite_field is called with
FieldWrites == {<<1, Long>>, <<2, Long>>, <<2, StringValue(<<50>>)>>, <<3, Boolean(TRUE)>>}

\* the last call on the file: its number, name, row id, column (0 for a
\* whole row), the values written and the result returned
FieldCall(n, op, id, column, values, f) ==
    [n |-> n, op |-> op, id |-> id, column |-> column, values |-> values, f |-> f]

\* FileRowCollection::create_table: an empty table file and BLOB store
InitField ==
    /\ row_data = <<>>
    /\ watermark = 0
    /\ file = <<>>
    /\ blobs = <<>>
    /\ last = FieldCall(0, "create_table", 0, 0, <<>>, Ack)
    /\ undo = NoUndo

\* overwrite_row(id, row)
WriteRow(id, row) ==
    LET f == FileOverwriteRow(file, blobs, id, row)
    IN  /\ last.n < MaxCalls
        /\ file' = f.file
        /\ blobs' = f.blobs
        /\ last' = FieldCall(last.n + 1, "overwrite_row", id, 0, row.values, f.result)
        /\ UNCHANGED <<row_data, watermark, undo>>

\* overwrite_field(id, column_id, new_value)
WriteField(id, column_id, new_value) ==
    LET f == FileOverwriteField(file, blobs, id, column_id, new_value)
    IN  /\ last.n < MaxCalls
        /\ file' = f.file
        /\ blobs' = f.blobs
        /\ last' = FieldCall(last.n + 1, "overwrite_field", id, column_id,
                             <<new_value>>, f.result)
        /\ UNCHANGED <<row_data, watermark, undo>>

\* a row whose string is longer than its String(2) column
LongQuote == <<ArrayValue, Long, U8Value(7)>>

LongRows == {Row(0, LongQuote)}

\* append_row(row): overwrite_row at len() with the row id set to len()
AppendToFile(row) ==
    LET id == FileLen(file)
        f == FileOverwriteRow(file, blobs, id, with_row_id(row, id))
    IN  /\ last.n < MaxCalls
        /\ file' = f.file
        /\ blobs' = f.blobs
        /\ last' = FieldCall(last.n + 1, "append_row", id, 0, row.values, f.result)
        /\ UNCHANGED <<row_data, watermark, undo>>

NextField ==
    \/ \E id \in Ids, row \in FieldRows : WriteRow(id, row)
    \/ \E id \in Ids, w \in FieldWrites : WriteField(id, w[1], w[2])
    \/ \E row \in LongRows : AppendToFile(row)

SpecField == InitField /\ [][NextField]_vars

\* C9: overwrite_field(id, c, v) changes no byte of the table file outside
\* [id * R + offset(c), id * R + offset(c) + w_c): every byte the file had
\* outside the slot is as before, and a byte outside the slot that the file
\* gains is zero, whether v fits, is longer than the column or fails to
\* encode
FieldWriteStaysInSlot ==
    [][last'.op = "overwrite_field" =>
          LET column == columns[last'.column]
              lo == convert_rowid_to_offset(last'.id) + column.offset
              hi == lo + column.max_physical_size
          IN  /\ Len(file') = Max(Len(file), hi)
              /\ \A i \in 1..Len(file') :
                    (i <= lo \/ i > hi) =>
                        file'[i] = (IF i <= Len(file) THEN file[i] ELSE 0)]_vars

\* the overlong string written to the String column of the first of two
\* rows: the value went to the BLOB store
FieldWriteStaysInSlotCase ==
    /\ last.op = "overwrite_field" /\ last.id = 0 /\ last.column = 2
    /\ last.values = <<Long>>
    /\ blobs = <<Long>>
    /\ FileLen(file) = 2
    /\ FileReadRow(file, blobs, 1).metadata.is_allocated

\* the value is of the column's type, or null
Matches(data_type, value) ==
    \/ value = Null
    \/ data_type.k = "ArrayType" /\ value.t = "ArrayValue"
    \/ data_type.k = "StringType" /\ value.t = "StringValue"
    \/ data_type.k = "U8Kind" /\ value.t = "U8Value"

\* C10: overwrite_field or overwrite_row with a value whose type does not
\* match the column's declared type returns a typed error value to the
\* caller, not a success
TypeMismatchIsReported ==
    /\ (last.op = "overwrite_field"
          /\ ~Matches(columns[last.column].data_type, last.values[1]))
          => last.f.t = "ErrorValue"
    /\ (last.op = "overwrite_row"
          /\ \E i \in ColumnIds : ~Matches(columns[i].data_type, last.values[i]))
          => last.f.t = "ErrorValue"

\* C27: after overwrite_row(id, row) the encoded field of every column
\* starts at the column's offset in the written record, also when the value
\* of an earlier column failed to encode
FieldsStartAtOffsets ==
    last.op = "overwrite_row" =>
        \A i \in ColumnIds :
            LET column == columns[i]
                value == last.values[i]
                lo == convert_rowid_to_offset(last.id) + column.offset
            IN  (/\ Matches(column.data_type, value)
                 /\ 1 + Len(TypedValueEncode(value)) <= column.max_physical_size)
                    => Slice(file, lo, lo + column.max_physical_size)
                          = DataTypeEncodeField(column.data_type, value,
                                                FieldMetadata(value # Null),
                                                column.max_physical_size)

\* FileRowCollection::read_field_metadata
FileReadFieldMetadata(f, id, c) ==
    FieldMetadataDecode(At(read_at(f, convert_rowid_to_offset(id) + columns[c].offset, 1), 0))

\* C11: on the file-backed collection, a row appended with a string longer
\* than its column reads back equal to the row written (with the id it was
\* appended at), and the field metadata of the oversize field has
\* is_external set, its value being held by the BLOB store
OverflowRoundTrip ==
    last.op = "append_row" =>
        /\ FileReadRow(file, blobs, last.id)
              = [row |-> Row(last.id, last.values), metadata |-> [is_allocated |-> TRUE]]
        /\ \A c \in ColumnIds :
              1 + Len(TypedValueEncode(last.values[c])) > columns[c].max_physical_size
                  => /\ FileReadFieldMetadata(file, last.id, c).is_external
                     /\ \E k \in 1..Len(blobs) : blobs[k] = last.values[c]

\* the overlong row appended after another row of the table
OverflowRoundTripCase ==
    /\ last.op = "append_row" /\ last.id = 1
    /\ last.values[2] = Long
    /\ FileReadFieldMetadata(file, 1, 2).is_external
    /\ FileReadRow(file, blobs, 0).metadata.is_allocated

\* ------------------------------------------------------------------------
\* The in-memory collection built from bytes and rows: decode, new,
\* from_rows, then overwrite and resize
\* ------------------------------------------------------------------------

\* the encoding of two rows, one after the other
Stream == RowEncode(Row(0, Quote)) \o RowEncode(Row(1, NullQuote))

\* the byte inputs of decode: every prefix of the stream
ByteInputs == {SubSeq(Stream, 1, n) : n \in 0..Len(Stream)}

\* the row data new is given: no rows, encoded rows, a short buffer
RowDataInputs ==
    {<<>>, <<RowEncode(Row(0, Quote))>>, <<SubSeq(Stream, 1, 1)>>,
     <<RowEncode(Row(0, Quote)), <<>>>>}

\* the rows from_rows is given
RowsInputs == {<<>>, <<Row(0, Quote)>>, <<Row(0, Quote), Row(1, NullQuote)>>}

\* ByteRowCollection::from_rows
ByteFromRows(rows) == ByteNew([i \in 1..Len(rows) |-> RowEncode(rows[i])])

\* the last call on the collection: its number and name
BytesCall(n, op) == [n |-> n, op |-> op]

InitBytes ==
    /\ row_data = ByteNew(<<>>).row_data
    /\ watermark = ByteNew(<<>>).watermark
    /\ file = <<>>
    /\ blobs = <<>>
    /\ last = BytesCall(0, "new")
    /\ undo = NoUndo

\* the collection replaced by the one a constructor returns
Construct(b, op) ==
    /\ last.n < MaxCalls
    /\ row_data' = b.row_data
    /\ watermark' = b.watermark
    /\ last' = BytesCall(last.n + 1, op)
    /\ UNCHANGED <<file, blobs, undo>>

DecodeBytes(bytes) == Construct(ByteDecode(bytes), "decode")

NewRowData(rows) == Construct(ByteNew(rows), "new")

FromRowsOf(rows) == Construct(ByteFromRows(rows), "from_rows")

OverwriteBytes(id, row) ==
    Construct(ByteOverwrite(row_data, watermark, id, row), "overwrite")

ResizeBytes(new_size) == Construct(ByteResize(row_data, watermark, new_size), "resize")

\* a call with a row id: its number and name, the id and what it returned
BytesQuery(n, op, id, result) == [n |-> n, op |-> op, id |-> id, result |-> result]

\* overwrite_metadata(id, metadata), the write of delete and undelete
OverwriteMetadataBytes(id, is_allocated) ==
    LET b == ByteOverwriteMetadata(row_data, watermark, id, is_allocated)
    IN  /\ last.n < MaxCalls
        /\ row_data' = b.row_data
        /\ watermark' = b.watermark
        /\ last' = BytesQuery(last.n + 1, "overwrite_metadata", id, b.result)
        /\ UNCHANGED <<file, blobs, undo>>

\* the slot of id holds nothing or a whole record; the reads of the
\* model are made on such slots
Whole(id) == id < Len(row_data) => Len(row_data[id + 1]) \in {0, record_size}

\* read(id)
ReadBytes(id) ==
    /\ Whole(id)
    /\ last' = BytesQuery(last.n, "read", id, ByteRead(row_data, id))
    /\ UNCHANGED <<row_data, watermark, file, blobs, undo>>

\* read_field(id, column_id)
ReadFieldBytes(id, column_id) ==
    /\ last' = BytesQuery(last.n, "read_field", id, ByteReadField(row_data, id, column_id))
    /\ UNCHANGED <<row_data, watermark, file, blobs, undo>>

\* read_range(0..len())
ReadRangeBytes ==
    /\ \A id \in 0..(Len(row_data) - 1) : Whole(id)
    /\ last' = BytesQuery(last.n, "read_range", 0, ByteReadRange(row_data, 0, watermark))
    /\ UNCHANGED <<row_data, watermark, file, blobs, undo>>

NextBytes ==
    \/ \E bytes \in ByteInputs : DecodeBytes(bytes)
    \/ \E rows \in RowDataInputs : NewRowData(rows)
    \/ \E rows \in RowsInputs : FromRowsOf(rows)
    \/ \E id \in Ids, row \in Rows : OverwriteBytes(id, row)
    \/ \E new_size \in Sizes : ResizeBytes(new_size)
    \/ \E id \in Ids, is_allocated \in BOOLEAN : OverwriteMetadataBytes(id, is_allocated)
    \/ \E id \in Ids : ReadBytes(id)
    \/ \E id \in Ids : ReadFieldBytes(id, 1)
    \/ ReadRangeBytes

SpecBytes == InitBytes /\ [][NextBytes]_vars

\* C12: every non-empty record stored in the collection has exactly
\* record_size bytes, after any sequence of new, decode, from_rows, overwrite
\* and resize calls
RecordsHaveRecordSize ==
    \A i \in 1..Len(row_data) :
        row_data[i] # <<>> => Len(row_data[i]) = record_size

\* the slot of id is below the high-water mark and was never written
IsGap(id) == id < watermark /\ id < Len(row_data) /\ row_data[id + 1] = <<>>

\* C25: on a slot below the high-water mark that was never written, read
\* returns the empty row with is_allocated = false, read_range skips the
\* slot, and read_field and overwrite_metadata do not fail
GapsAreTombstones ==
    /\ (last.op \in {"read", "read_field", "overwrite_metadata"} /\ IsGap(last.id))
          => /\ last.result # PANIC
             /\ last.op = "read"
                   => last.result = [row |-> RowEmpty, metadata |-> [is_allocated |-> FALSE]]
    /\ last.op = "read_range"
          => /\ last.result # PANIC
             /\ Len(last.result.rows)
                   <= Cardinality({id \in 0..(watermark - 1) : ~IsGap(id)})

\* C26: the high-water mark that len() returns is the number of slots in
\* row_data, in every state reached through new, from_rows, decode,
\* overwrite, overwrite_metadata and resize
WatermarkIsLength == watermark = Len(row_data)

\* an overwrite past the end has left a gap below the high-water mark
WatermarkIsLengthCase ==
    /\ last.op = "overwrite"
    /\ watermark = 2
    /\ row_data[1] = <<>>
    /\ row_data[2] # <<>>

\* ------------------------------------------------------------------------
\* The layout of a column list: from_columns, then compute_record_size
\* ------------------------------------------------------------------------

\* the most columns of a column list
MaxColumns == 2

\* the declared types of a column, sizes 0 and above
TypeInputs ==
    {ArrayType(0), ArrayType(8), ASCIIType(0), ASCIIType(3), BinaryType(0),
     BinaryType(5), StringType(0), StringType(2), BooleanType, U8Type}

RECURSIVE ListsOf(_, _)
\* the sequences of at most n elements of S
ListsOf(S, n) ==
    IF n = 0 THEN {<<>>}
    ELSE ListsOf(S, n - 1)
           \cup {Append(l, x) : l \in {m \in ListsOf(S, n - 1) : Len(m) = n - 1}, x \in S}

InitSchema ==
    /\ row_data = <<>>
    /\ watermark = 0
    /\ file = <<>>
    /\ blobs = <<>>
    /\ last \in {[op |-> "types", types |-> types] : types \in ListsOf(TypeInputs, MaxColumns)}
    /\ undo = NoUndo

\* the physical columns of the list and the record size computed from them
Layout ==
    /\ last.op = "types"
    /\ last' = [op |-> "from_columns", types |-> last.types,
                columns |-> from_columns(last.types),
                record_size |-> RecordSizeOf(from_columns(last.types))]
    /\ UNCHANGED <<row_data, watermark, file, blobs, undo>>

NextSchema == Layout

SpecSchema == InitSchema /\ [][NextSchema]_vars

RECURSIVE SumFixed(_)
\* the sum of the fixed sizes of the types of a list
SumFixed(types) ==
    IF types = <<>> THEN 0 ELSE compute_fixed_size(Head(types)) + SumFixed(Tail(types))

\* C13: the record size of a column list is 9 plus the sum of the columns'
\* fixed sizes; the first column is at offset 9 and each next column starts
\* where the one before it ends
RecordSizeIsSum ==
    last.op = "from_columns" =>
        /\ last.record_size = 9 + SumFixed(last.types)
        /\ Len(last.columns) = Len(last.types)
        /\ \A i \in 1..Len(last.columns) :
              /\ i = 1 => last.columns[i].offset = 9
              /\ i > 1 => last.columns[i].offset
                            = last.columns[i - 1].offset
                                + compute_fixed_size(last.types[i - 1])

\* a list of two columns of different widths laid out
RecordSizeIsSumCase ==
    /\ last.op = "from_columns"
    /\ last.types = <<StringType(2), U8Type>>
    /\ last.columns[2].offset = 20
    /\ last.record_size = 22

\* C15: String(n), ASCII(n), Binary(n) and Array(n) all occupy n plus the
\* 8-byte length prefix when n > 0 and the 8-byte pointer width when n = 0,
\* plus the field-metadata byte
SizedTypesShareRule ==
    last.op = "from_columns" =>
        \A i \in 1..Len(last.columns) :
            last.types[i].k \in {"StringType", "ASCIIType", "BinaryType", "ArrayType"}
                => last.columns[i].max_physical_size
                     = (IF last.types[i].size > 0 THEN last.types[i].size + 8 ELSE 8) + 1

\* ------------------------------------------------------------------------
\* One value through its type: DataType::encode, then DataType::decode of
\* the bytes
\* ------------------------------------------------------------------------

\* the most characters, items or bytes of a value
MaxLen == 2

U8Inputs == {0, 1, 7, 9, 127, 128, 255}

\* the (type, value) pairs, each value of its type and within its width
TypedInputs ==
    {<<BooleanType, Boolean(b)>> : b \in BOOLEAN}
      \cup {<<U8Type, U8Value(n)>> : n \in U8Inputs}
      \cup {<<StringType(MaxLen), StringValue(chars)>> : chars \in ListsOf({49, 50, 51}, MaxLen)}
      \cup {<<ArrayType(PTR_LEN + MaxLen), ArrayOf(items)>> : items \in ListsOf({1, 2}, MaxLen)}
      \cup {<<BinaryType(PTR_LEN + MaxLen), Binary(bytes)>> : bytes \in ListsOf({1, 2}, MaxLen)}

InitValue ==
    /\ row_data = <<>>
    /\ watermark = 0
    /\ file = <<>>
    /\ blobs = <<>>
    /\ last \in {[op |-> "value", data_type |-> tv[1], value |-> tv[2]] : tv \in TypedInputs}
    /\ undo = NoUndo

\* data_type.encode(value)
EncodeValue ==
    /\ last.op = "value"
    /\ last' = [op |-> "encode", data_type |-> last.data_type, value |-> last.value,
                bytes |-> DataTypeEncode(last.data_type, last.value)]
    /\ UNCHANGED <<row_data, watermark, file, blobs, undo>>

\* data_type.decode(bytes, 0)
DecodeValue ==
    /\ last.op = "encode"
    /\ "ok" \in DOMAIN last.bytes
    /\ last' = [op |-> "decode", data_type |-> last.data_type, value |-> last.value,
                out |-> DataTypeDecode(last.data_type, last.bytes.ok, 0)]
    /\ UNCHANGED <<row_data, watermark, file, blobs, undo>>

NextValue == EncodeValue \/ DecodeValue

SpecValue == InitValue /\ [][NextValue]_vars

\* C14: decoding under T the bytes produced by encoding v under T yields v,
\* for Boolean, number, string, Array and Binary values
ValueRoundTrip ==
    last.op = "decode" => last.out = last.value

\* ------------------------------------------------------------------------
\* Type declarations (data_types.rs): a declaration is the sequence of its
\* tokens, <<"String", "(", "8", ")">>; from_str compiles it to an expression
\* and deciphers the expression, to_code writes a type back as a declaration
\* ------------------------------------------------------------------------

NumberKinds ==
    {"AckKind", "RowIdKind", "RowsAffectedKind", "DateKind", "F32Kind",
     "F64Kind", "I8Kind", "I16Kind", "I32Kind", "I64Kind", "I128Kind",
     "U8Kind", "U16Kind", "U32Kind", "U64Kind", "U128Kind", "UUIDKind",
     "NaNKind"}

\* NumberKind::compute_max_physical_size
compute_max_physical_size(kind) ==
      CASE kind = "AckKind" -> 2
        [] kind = "RowIdKind" -> 2
        [] kind = "RowsAffectedKind" -> 2
        [] kind = "DateKind" -> 8
        [] kind = "F32Kind" -> 4
        [] kind = "F64Kind" -> 8
        [] kind = "I8Kind" -> 1
        [] kind = "I16Kind" -> 2
        [] kind = "I32Kind" -> 4
        [] kind = "I64Kind" -> 8
        [] kind = "I128Kind" -> 16
        [] kind = "U8Kind" -> 1
        [] kind = "U16Kind" -> 2
        [] kind = "U32Kind" -> 4
        [] kind = "U64Kind" -> 8
        [] kind = "U128Kind" -> 16
        [] kind = "UUIDKind" -> 16
        [] kind = "NaNKind" -> 0

\* NumberKind::get_type_name
get_type_name(kind) ==
      CASE kind = "AckKind" -> "Ack"
        [] kind = "RowIdKind" -> "RowId"
        [] kind = "RowsAffectedKind" -> "RowsAffected"
        [] kind = "DateKind" -> "Date"
        [] kind = "F32Kind" -> "f32"
        [] kind = "F64Kind" -> "f64"
        [] kind = "I8Kind" -> "i8"
        [] kind = "I16Kind" -> "i16"
        [] kind = "I32Kind" -> "i32"
        [] kind = "I64Kind" -> "i64"
        [] kind = "I128Kind" -> "i128"
        [] kind = "U8Kind" -> "u8"
        [] kind = "U16Kind" -> "u16"
        [] kind = "U32Kind" -> "u32"
        [] kind = "U64Kind" -> "u64"
        [] kind = "U128Kind" -> "u128"
        [] kind = "UUIDKind" -> "UUID"
        [] kind = "NaNKind" -> "NaN"

NumberType(kind) == [k |-> kind, size |-> compute_max_physical_size(kind)]

ErrorType == [k |-> "ErrorType"]

Indeterminate == [k |-> "Indeterminate"]

EnumType(params) == [k |-> "EnumType", params |-> params]

StructureType(params) == [k |-> "StructureType", params |-> params]

TableType(params) == [k |-> "TableType", params |-> params]

FunctionType(params, returns) ==
    [k |-> "FunctionType", params |-> params, returns |-> returns]

\* the expressions a declaration compiles to
Variable(name) == [e |-> "Variable", name |-> name]

Literal(value) == [e |-> "Literal", value |-> value]

FunctionCall(fx, args) == [e |-> "FunctionCall", fx |-> fx, args |-> args]

FnExpression(params, returns) ==
    [e |-> "FnExpression", params |-> params, returns |-> returns]

Err(error) == [err |-> error]

TypeMismatch(detail) == [kind |-> "TypeMismatch", detail |-> detail]

UnrecognizedTypeName(name) == <<"UnrecognizedTypeName", name>>

ArgumentsMismatched(expected, actual) ==
    <<"ArgumentsMismatched", ToString(expected), ToString(actual)>>

Syntax(text) == [kind |-> "Syntax", detail |-> <<text>>]

\* expect_size: no argument gives size 0, a number gives that size
expect_size(args, k) ==
    IF Len(args) = 0 THEN Ok([k |-> k, size |-> 0])
    ELSE IF Len(args) = 1
    THEN IF args[1].e = "Literal" THEN Ok([k |-> k, size |-> args[1].value])
         ELSE Err(Syntax(args[1].e))
    ELSE Err(TypeMismatch(ArgumentsMismatched(1, Len(args))))

\* expect_params on the argument lists of the model: no parameter, or an
\* argument that is no parameter
expect_params(args, k) ==
    IF Len(args) = 0 THEN Ok([k |-> k, params |-> <<>>])
    ELSE Err(Syntax(args[1].e))

\* decode_model_function_call: a name applied to arguments
decode_model_function_call(fx, args) ==
    IF fx.e = "Variable"
    THEN CASE fx.name = "Array" -> expect_size(args, "ArrayType")
           [] fx.name = "ASCII" -> expect_size(args, "ASCIIType")
           [] fx.name = "Binary" -> expect_size(args, "BinaryType")
           [] fx.name = "Enum" -> expect_params(args, "EnumType")
           [] fx.name = "fn" ->
                 IF Len(args) = 0 THEN Ok(FunctionType(<<>>, Indeterminate))
                 ELSE Err(Syntax(args[1].e))
           [] fx.name = "String" -> expect_size(args, "StringType")
           [] fx.name = "Struct" -> expect_params(args, "StructureType")
           [] fx.name = "Table" -> expect_params(args, "TableType")
           [] OTHER -> Err(Syntax(fx.name))
    ELSE Err(Syntax(fx.e))

\* the names decode_model_variable knows
VariableTypeNames ==
    {"Ack", "Boolean", "Date", "Enum", "Error", "f32", "f64", "Fn", "i8",
     "i16", "i32", "i64", "i128", "RowId", "RowsAffected", "String",
     "Struct", "Table", "u8", "u16", "u32", "u64", "u128"}

\* decode_model_variable: a bare name
decode_model_variable(name) ==
      CASE name = "Ack" -> Ok(NumberType("AckKind"))
        [] name = "Boolean" -> Ok(BooleanType)
        [] name = "Date" -> Ok(NumberType("DateKind"))
        [] name = "Enum" -> Ok(EnumType(<<>>))
        [] name = "Error" -> Ok(ErrorType)
        [] name = "f32" -> Ok(NumberType("F32Kind"))
        [] name = "f64" -> Ok(NumberType("F64Kind"))
        [] name = "Fn" -> Ok(FunctionType(<<>>, Indeterminate))
        [] name = "i8" -> Ok(NumberType("I8Kind"))
        [] name = "i16" -> Ok(NumberType("I16Kind"))
        [] name = "i32" -> Ok(NumberType("I32Kind"))
        [] name = "i64" -> Ok(NumberType("I64Kind"))
        [] name = "i128" -> Ok(NumberType("I128Kind"))
        [] name = "RowId" -> Ok(NumberType("RowIdKind"))
        [] name = "RowsAffected" -> Ok(NumberType("RowsAffectedKind"))
        [] name = "String" -> Ok(StringType(0))
        [] name = "Struct" -> Ok(StructureType(<<>>))
        [] name = "Table" -> Ok(TableType(<<>>))
        [] name = "u8" -> Ok(NumberType("U8Kind"))
        [] name = "u16" -> Ok(NumberType("U16Kind"))
        [] name = "u32" -> Ok(NumberType("U32Kind"))
        [] name = "u64" -> Ok(NumberType("U64Kind"))
        [] name = "u128" -> Ok(NumberType("U128Kind"))
        [] OTHER -> Err(TypeMismatch(UnrecognizedTypeName(name)))

\* decode_model / DataType::decipher_type
decipher_type(model) ==
    CASE model.e = "FnExpression" -> Ok(FunctionType(model.params, model.returns))
      [] model.e = "FunctionCall" -> decode_model_function_call(model.fx, model.args)
      [] model.e = "Variable" -> decode_model_variable(model.name)
      [] OTHER -> Err(Syntax(model.e))

\* the largest declared size
MaxSize == 2

SizeInputs == 0..MaxSize

\* the number a token of digits stands for
NumberOf(token) == CHOOSE n \in SizeInputs : ToString(n) = token

\* Compiler::build on a declaration: a bare name is a variable, fn() a
\* function expression, a name with parentheses a call
Compile(decl) ==
    IF Len(decl) = 1 THEN Variable(decl[1])
    ELSE IF decl = <<"fn", "(", ")">> THEN FnExpression(<<>>, Indeterminate)
    ELSE IF Len(decl) = 3 THEN FunctionCall(Variable(decl[1]), <<>>)
    ELSE FunctionCall(Variable(decl[1]), <<Literal(NumberOf(decl[3]))>>)

\* DataType::from_str
from_str(param_type) == decipher_type(Compile(param_type))

\* to_code's sized: the bare name for size 0
sized(name, size) ==
    IF size = 0 THEN <<name>> ELSE <<name, "(", ToString(size), ")">>

\* to_code's parameterized, for the parameter lists of the model (empty)
parameterized(name, params) ==
    IF Len(params) = 0 THEN <<name>> ELSE <<name, "(", ")">>

\* DataType::to_code
to_code(dt) ==
    CASE dt.k = "ArrayType" -> sized("Array", dt.size)
      [] dt.k = "ASCIIType" -> sized("ASCII", dt.size)
      [] dt.k = "BinaryType" -> sized("Binary", dt.size)
      [] dt.k = "BooleanType" -> <<"Boolean">>
      [] dt.k = "EnumType" -> parameterized("Enum", dt.params)
      [] dt.k = "ErrorType" -> <<"Error">>
      [] dt.k = "FunctionType" -> <<"fn", "(", ")">>
      [] dt.k = "Indeterminate" -> <<>>
      [] dt.k \in NumberKinds -> <<get_type_name(dt.k)>>
      [] dt.k = "StringType" -> sized("String", dt.size)
      [] dt.k = "StructureType" -> parameterized("Struct", dt.params)
      [] dt.k = "TableType" -> parameterized("Table", dt.params)

\* the names of sized types, and a name that is no type
SizedTypeNames == {"Array", "ASCII", "Binary", "String"}

UnknownTypeNames == {"Foo", "Text"}

\* the declarations given to from_str: bare names, sized declarations and
\* declarations with an empty parameter list
Declarations ==
    {<<name>> : name \in VariableTypeNames \cup SizedTypeNames
                            \cup UnknownTypeNames \cup {"UUID", "NaN"}}
      \cup {<<name, "(", ToString(n), ")">> :
               name \in SizedTypeNames \cup UnknownTypeNames, n \in SizeInputs}
      \cup {<<name, "(", ")">> : name \in {"Enum", "Struct", "Table", "fn"}}

\* the types given to to_code
DataTypes ==
    {[k |-> k, size |-> n] :
        k \in {"ArrayType", "ASCIIType", "BinaryType", "StringType"}, n \in SizeInputs}
      \cup {NumberType(kind) : kind \in NumberKinds}
      \cup {BooleanType, ErrorType, EnumType(<<>>), StructureType(<<>>),
            TableType(<<>>), FunctionType(<<>>, Indeterminate)}

InitType ==
    /\ row_data = <<>>
    /\ watermark = 0
    /\ file = <<>>
    /\ blobs = <<>>
    /\ last \in {[op |-> "declaration", decl |-> decl] : decl \in Declarations}
                  \cup {[op |-> "type", dt |-> dt] : dt \in DataTypes}
    /\ undo = NoUndo

\* from_str(decl)
FromStr ==
    /\ last.op = "declaration"
    /\ last' = [op |-> "from_str", decl |-> last.decl, result |-> from_str(last.decl)]
    /\ UNCHANGED <<row_data, watermark, file, blobs, undo>>

\* to_code() of the type from_str returned
ToCodeBack ==
    /\ last.op = "from_str"
    /\ "ok" \in DOMAIN last.result
    /\ last' = [op |-> "to_code_back", decl |-> last.decl,
                code |-> to_code(last.result.ok)]
    /\ UNCHANGED <<row_data, watermark, file, blobs, undo>>

\* dt.to_code()
ToCode ==
    /\ last.op = "type"
    /\ last' = [op |-> "to_code", dt |-> last.dt, code |-> to_code(last.dt)]
    /\ UNCHANGED <<row_data, watermark, file, blobs, undo>>

\* from_str of the code to_code returned
FromStrBack ==
    /\ last.op = "to_code"
    /\ last' = [op |-> "from_str_back", dt |-> last.dt, result |-> from_str(last.code)]
    /\ UNCHANGED <<row_data, watermark, file, blobs, undo>>

NextType == FromStr \/ ToCodeBack \/ ToCode \/ FromStrBack

SpecType == InitType /\ [][NextType]_vars

\* C16: for every declaration s that from_str accepts, from_str(s).to_code()
\* is s, and for every type t, from_str(t.to_code()) succeeds and equals t
TypeDeclRoundTrip ==
    /\ last.op = "to_code_back" => last.code = last.decl
    /\ last.op = "from_str_back" => last.result = Ok(last.dt)

\* C17: a type name that is not a known type, bare or applied to arguments,
\* fails with TypeMismatch(UnrecognizedTypeName(name))
UnknownNameIsUnrecognized ==
    (last.op = "from_str" /\ last.decl[1] \in UnknownTypeNames)
        => last.result = Err(TypeMismatch(UnrecognizedTypeName(last.decl[1])))

\*-------------------------------------------------------------------------
\* Row::transform (rows.rs)

\* the longest list of field names or values
MaxFields == 2

Undefined == [t |-> "Undefined", v |-> <<>>]

\* the names of the table's columns
ColumnNames == <<"symbol", "exchange", "last_sale">>

\* the fold of transform: the mapping of the first n field names to values,
\* a later insert replacing an earlier one
RECURSIVE Cache(_, _, _)
Cache(field_names, field_values, n) ==
    IF n = 0 THEN <<>>
    ELSE LET m == Cache(field_names, field_values, n - 1)
         IN  [k \in DOMAIN m \cup {field_names[n]} |->
                 IF k = field_names[n] THEN field_values[n] ELSE m[k]]

\* the failure of transform
DataMismatch(columns_len, values_len) ==
    [kind |-> "Data mismatch", columns |-> columns_len, values |-> values_len]

transformKeepingUndefined(row, field_names, field_values) ==
    IF Len(field_names) # Len(field_values)
    THEN Err(DataMismatch(Len(field_names), Len(field_values)))
    ELSE LET cache == Cache(field_names, field_values, Len(field_names))
         IN  Ok(Row(row.id,
                    [c \in ColumnIds |->
                        IF ColumnNames[c] \in DOMAIN cache
                        THEN cache[ColumnNames[c]]
                        ELSE row.values[c]]))

\* Row::transform
transform(row, field_names, field_values) ==
    IF Len(field_names) # Len(field_values)
    THEN Err(DataMismatch(Len(field_names), Len(field_values)))
    ELSE LET cache == Cache(field_names, field_values, Len(field_names))
         IN  Ok(Row(row.id,
                    [c \in ColumnIds |->
                        IF ColumnNames[c] \in DOMAIN cache
                        THEN IF cache[ColumnNames[c]] = Undefined
                             THEN row.values[c]
                             ELSE cache[ColumnNames[c]]
                        ELSE row.values[c]]))

\* the field names given to transform: the columns and a name that is none
FieldNames == {ColumnNames[c] : c \in ColumnIds} \cup {"volume"}

FieldValues == {Undefined, Null, U8Value(1)}

InitTransform ==
    /\ row_data = <<>>
    /\ watermark = 0
    /\ file = <<>>
    /\ blobs = <<>>
    /\ last \in {[op |-> "row", row |-> row, field_names |-> names,
                  field_values |-> values] :
                    row \in Rows,
                    names \in UNION {ListsOf(FieldNames, n) : n \in 0..MaxFields},
                    values \in UNION {ListsOf(FieldValues, n) : n \in 0..MaxFields}}
    /\ undo = NoUndo

\* row.transform(field_names, field_values)
Transform ==
    /\ last.op = "row"
    /\ last' = [last EXCEPT !.op = "transform"]
                  @@ [result |-> transform(last.row, last.field_names, last.field_values)]
    /\ UNCHANGED <<row_data, watermark, file, blobs, undo>>

NextTransform == Transform

SpecTransform == InitTransform /\ [][NextTransform]_vars

\* the positions at which a column is named in the field names
NamedAt(field_names, c) ==
    {i \in 1..Len(field_names) : field_names[i] = ColumnNames[c]}

\* the greatest member of a non-empty set of positions
Greatest(S) == CHOOSE i \in S : \A j \in S : j <= i

\* C18 as stated: with equally long lists the result is a row with the same
\* id in which every named field holds the value supplied with its name and
\* every other field is unchanged; with lists of different lengths
\* transform fails
TransformReplacesNamed ==
    last.op = "transform" =>
        IF Len(last.field_names) # Len(last.field_values)
        THEN "err" \in DOMAIN last.result
        ELSE /\ "ok" \in DOMAIN last.result
             /\ last.result.ok.id = last.row.id
             /\ \A c \in ColumnIds :
                   IF NamedAt(last.field_names, c) = {}
                   THEN last.result.ok.values[c] = last.row.values[c]
                   ELSE \A i \in NamedAt(last.field_names, c) :
                           last.result.ok.values[c] = last.field_values[i]

\* C18 amended: with equally long lists the result is a row with the same
\* id in which a field holds the value supplied with the last occurrence of
\* its name, unless the field is not named or that value is Undefined, and
\* then it is unchanged; with lists of different lengths transform fails
TransformReplacesDefined ==
    last.op = "transform" =>
        IF Len(last.field_names) # Len(last.field_values)
        THEN "err" \in DOMAIN last.result
        ELSE /\ "ok" \in DOMAIN last.result
             /\ last.result.ok.id = last.row.id
             /\ DOMAIN last.result.ok.values = ColumnIds
             /\ \A c \in ColumnIds :
                   LET at == NamedAt(last.field_names, c)
                   IN  IF at = {} \/ last.field_values[Greatest(at)] = Undefined
                       THEN last.result.ok.values[c] = last.row.values[c]
                       ELSE last.result.ok.values[c] = last.field_values[Greatest(at)]

\* a field named with Undefined keeps its value next to a field that is
\* replaced
TransformReplacesDefinedCase ==
    /\ last.op = "transform"
    /\ last.row = Row(0, Quote)
    /\ last.field_names = <<"exchange", "last_sale">>
    /\ last.field_values = <<Undefined, U8Value(1)>>
    /\ last.result = Ok(Row(0, <<ArrayValue, StringValue(<<49>>), U8Value(1)>>))

\*-------------------------------------------------------------------------
\* Expression::to_pure (expression.rs)

\* the deepest nesting of operators in an expression
MaxDepth == 2

AsValue(name, expr) == [e |-> "AsValue", name |-> name, expr |-> expr]

ArrayExpression(items) == [e |-> "ArrayExpression", items |-> items]

Condition(kind) == [e |-> "Condition", kind |-> kind]

\* a database operation, whatever it is
DatabaseOp == [e |-> "DatabaseOp"]

\* Conditions
And(a, b) == [c |-> "And", args |-> <<a, b>>]

Or(a, b) == [c |-> "Or", args |-> <<a, b>>]

True == [c |-> "True", args |-> <<>>]

False == [c |-> "False", args |-> <<>>]

Not(a) == [c |-> "Not", args |-> <<a>>]

\* Equal, NotEqual, LessThan, LessOrEqual, GreaterThan, GreaterOrEqual
Comparisons ==
    {"Equal", "NotEqual", "LessThan", "LessOrEqual", "GreaterThan", "GreaterOrEqual"}

Comparison(c, a, b) == [c |-> c, args |-> <<a, b>>]

\* Between, Betwixt
Ranges == {"Between", "Betwixt"}

InRange(c, a, b, d) == [c |-> c, args |-> <<a, b, d>>]

ConstantValueExpected(code) == <<"ConstantValueExpected", code>>

\* TypedValue::is_true
is_true(value) == value = Boolean(TRUE)

RECURSIVE to_pure(_)
RECURSIVE Purified(_, _)

\* the loop of purify over the first n items: the values, or the first error
Purified(items, n) ==
    IF n = 0 THEN Ok(<<>>)
    ELSE LET before == Purified(items, n - 1)
         IN  IF "err" \in DOMAIN before THEN before
             ELSE LET item == to_pure(items[n])
                  IN  IF "err" \in DOMAIN item THEN item
                      ELSE Ok(Append(before.ok, item.ok))

\* Expression::purify
purify(items) ==
    LET new_items == Purified(items, Len(items))
    IN  IF "err" \in DOMAIN new_items THEN new_items
        ELSE Ok(ArrayOf(new_items.ok))

\* Expression::to_pure; z.to_code() is kept as z itself
to_pure(expr) ==
    CASE expr.e = "AsValue" -> to_pure(expr.expr)
      [] expr.e = "ArrayExpression" -> purify(expr.items)
      [] expr.e = "Condition" ->
           LET kind == expr.kind
           IN  CASE kind.c = "And" ->
                      LET a == to_pure(kind.args[1])
                      IN  IF "err" \in DOMAIN a THEN a
                          ELSE IF ~is_true(a.ok) THEN Ok(Boolean(FALSE))
                          ELSE LET b == to_pure(kind.args[2])
                               IN  IF "err" \in DOMAIN b THEN b
                                   ELSE Ok(Boolean(is_true(b.ok)))
                 [] kind.c = "False" -> Ok(Boolean(FALSE))
                 [] kind.c = "Or" ->
                      LET a == to_pure(kind.args[1])
                      IN  IF "err" \in DOMAIN a THEN a
                          ELSE IF is_true(a.ok) THEN Ok(Boolean(TRUE))
                          ELSE LET b == to_pure(kind.args[2])
                               IN  IF "err" \in DOMAIN b THEN b
                                   ELSE Ok(Boolean(is_true(b.ok)))
                 [] kind.c = "True" -> Ok(Boolean(TRUE))
                 [] OTHER -> Err(TypeMismatch(ConstantValueExpected(kind)))
      [] expr.e = "Literal" -> Ok(expr.value)
      [] OTHER -> Err(TypeMismatch(ConstantValueExpected(expr)))

\* the expressions without operands
Leaves ==
    {Literal(Boolean(TRUE)), Literal(Boolean(FALSE)), Literal(U8Value(1)),
     Condition(True), Condition(False),
     Variable("x"), FunctionCall(Variable("f"), <<>>), DatabaseOp}

\* the expressions with one operator above expr
Wraps(expr) ==
    {Condition(k) : k \in
        {And(expr, Literal(Boolean(b))) : b \in BOOLEAN}
          \cup {And(Literal(Boolean(b)), expr) : b \in BOOLEAN}
          \cup {Or(expr, Literal(Boolean(b))) : b \in BOOLEAN}
          \cup {Or(Literal(Boolean(b)), expr) : b \in BOOLEAN}
          \cup {Not(expr)}
          \cup {Comparison(c, expr, Literal(U8Value(1))) : c \in Comparisons}
          \cup {InRange(c, expr, Literal(U8Value(1)), Literal(U8Value(1))) : c \in Ranges}}
      \cup {AsValue("x", expr), ArrayExpression(<<expr>>)}

\* the expressions with at most depth operators nested
RECURSIVE Expressions(_)
Expressions(depth) ==
    IF depth = 0 THEN Leaves
    ELSE LET inner == Expressions(depth - 1)
         IN  inner \cup UNION {Wraps(expr) : expr \in inner}

InitPure ==
    /\ row_data = <<>>
    /\ watermark = 0
    /\ file = <<>>
    /\ blobs = <<>>
    /\ last \in {[op |-> "expression", expr |-> expr] : expr \in Expressions(MaxDepth)}
    /\ undo = NoUndo

\* expr.to_pure()
ToPure ==
    /\ last.op = "expression"
    /\ last' = [op |-> "to_pure", expr |-> last.expr, result |-> to_pure(last.expr)]
    /\ UNCHANGED <<row_data, watermark, file, blobs, undo>>

NextPure == ToPure

SpecPure == InitPure /\ [][NextPure]_vars

\* the operands of an expression
Operands(expr) ==
    CASE expr.e = "AsValue" -> <<expr.expr>>
      [] expr.e = "ArrayExpression" -> expr.items
      [] expr.e = "Condition" -> expr.kind.args
      [] OTHER -> <<>>

\* a variable, a function call or a database operation occurs in expr
RECURSIVE HasImpure(_)
HasImpure(expr) ==
    \/ expr.e \in {"Variable", "FunctionCall", "DatabaseOp"}
    \/ \E i \in DOMAIN Operands(expr) : HasImpure(Operands(expr)[i])

\* C19: to_pure of an expression in which a variable, a function call or a
\* database operation occurs returns a ConstantValueExpected error, never a
\* value
ImpureIsRejected ==
    (last.op = "to_pure" /\ HasImpure(last.expr)) =>
        /\ "err" \in DOMAIN last.result
        /\ last.result.err.kind = "TypeMismatch"
        /\ last.result.err.detail[1] = "ConstantValueExpected"

\* C20: to_pure of a comparison, a between, a betwixt or a negation whose
\* operands hold no variable, function call or database operation returns a
\* Boolean
ComparisonIsPure ==
    (/\ last.op = "to_pure"
     /\ last.expr.e = "Condition"
     /\ last.expr.kind.c \in Comparisons \cup Ranges \cup {"Not"}
     /\ ~HasImpure(last.expr))
        => last.result \in {Ok(Boolean(b)) : b \in BOOLEAN}

\*-------------------------------------------------------------------------
\* TokenSlice (token_slice.rs)

\* the most tokens in a slice
MaxTokens == 4

Some(value) == [some |-> value]

None == [none |-> TRUE]

\* a token: its raw value and where it stands in the text
Token(text, line_number, column_number) ==
    [text |-> text, line_number |-> line_number, column_number |-> column_number]

\* get_raw_value().len(): every raw value of the model is one character
RawLen(token) == Len(<<token.text>>)

\* tokenizer::parse_fully on the raw values written on one line, gap
\* spaces apart
parse_fully(raws, gap) ==
    [i \in 1..Len(raws) |-> Token(raws[i], 1, i * (1 + gap))]

\* struct TokenSlice
TokenSlice(tokens, pos) == [tokens |-> tokens, pos |-> pos]

\* TokenSlice::new
TokenSliceNew(tokens) == TokenSlice(tokens, 0)

\* TokenSlice::copy
copy(self, pos) == TokenSlice(self.tokens, pos)

\* tokens[index] with the code's 0-based index; out of bounds it panics
Index(tokens, index) ==
    IF index >= 0 /\ index < Len(tokens) THEN tokens[index + 1] ELSE PANIC

\* what a navigation returns: the token, the new slice, and the receiver
\* as the call leaves it (&self)
Moved(tok, ts, self) == [tok |-> tok, ts |-> ts, self |-> self]

nextPastEnd(self) ==
    LET n == self.pos
    IN  IF n < Len(self.tokens)
        THEN Moved(Some(Index(self.tokens, n)), copy(self, n + 1), self)
        ELSE Moved(None, copy(self, n + 1), self)

\* TokenSlice::next
next(self) ==
    LET n == self.pos
    IN  IF n < Len(self.tokens)
        THEN Moved(Some(Index(self.tokens, n)), copy(self, n + 1), self)
        ELSE Moved(None, self, self)

\* TokenSlice::previous
previous(self) ==
    LET n == self.pos - 1
    IN  IF n >= 0
        THEN Moved(Some(Index(self.tokens, n)), copy(self, n), self)
        ELSE Moved(None, self, self)

\* TokenSlice::skip
skip(self) == next(self).ts

\* the raw values of the tokens
RawValues == {"a", "b"}

\* the last navigation: the slice held now, the call, the slice it was made
\* on before and after the call, the token it returned, and the tokens
\* returned by the run of next() calls begun at position start and by the
\* previous() calls that followed it
CursorCall(ts, op, before, after, tok, start, fwd, back) ==
    [ts |-> ts, op |-> op, before |-> before, after |-> after, tok |-> tok,
     start |-> start, fwd |-> fwd, back |-> back]

InitCursor ==
    /\ row_data = <<>>
    /\ watermark = 0
    /\ file = <<>>
    /\ blobs = <<>>
    /\ \E raws \in UNION {ListsOf(RawValues, n) : n \in 0..MaxTokens} :
          LET ts == TokenSliceNew(parse_fully(raws, 1))
          IN  last = CursorCall(ts, "new", ts, ts, None, 0, <<>>, <<>>)
    /\ undo = NoUndo

\* let (tok, ts) = ts.next(); a next() after a previous() begins a new run
StepNext ==
    LET moved == next(last.ts)
        fresh == Len(last.back) > 0
        start == IF fresh THEN last.ts.pos ELSE last.start
        fwd == IF fresh THEN <<>> ELSE last.fwd
    IN  /\ last' = CursorCall(moved.ts, "next", last.ts, moved.self, moved.tok, start,
                              IF moved.tok = None THEN fwd
                              ELSE Append(fwd, moved.tok.some),
                              <<>>)
        /\ UNCHANGED <<row_data, watermark, file, blobs, undo>>

\* let (tok, ts) = ts.previous()
StepPrevious ==
    LET moved == previous(last.ts)
    IN  /\ last' = CursorCall(moved.ts, "previous", last.ts, moved.self, moved.tok,
                              last.start, last.fwd,
                              IF moved.tok = None THEN last.back
                              ELSE Append(last.back, moved.tok.some))
        /\ UNCHANGED <<row_data, watermark, file, blobs, undo>>

\* let ts = ts.skip(): the run of next() calls starts afresh
StepSkip ==
    LET ts == skip(last.ts)
    IN  /\ last' = CursorCall(ts, "skip", last.ts, last.ts, None, ts.pos, <<>>, <<>>)
        /\ UNCHANGED <<row_data, watermark, file, blobs, undo>>

NextCursor == StepNext \/ StepPrevious \/ StepSkip

SpecCursor == InitCursor /\ [][NextCursor]_vars

\* the last n items of a sequence, the last one first
Reversed(items, n) == [i \in 1..n |-> items[Len(items) + 1 - i]]

RangeInside(tokens, from, to) == from <= to /\ to <= Len(tokens)

\* tokens[from..to] with the code's 0-based half-open range
Range(tokens, from, to) == [i \in 1..(to - from) |-> tokens[from + i]]

\* the loop of scan_to and scan_until: the first position from pos on whose
\* token satisfies f, or the length
RECURSIVE ScanLoop(_, _, _)
ScanLoop(tokens, pos, f) ==
    IF pos < Len(tokens) /\ ~(Index(tokens, pos).text \in f)
    THEN ScanLoop(tokens, pos + 1, f)
    ELSE pos

Scanned(tokens, ts) == [tokens |-> tokens, ts |-> ts]

\* TokenSlice::scan_to; f is the set of raw values the predicate accepts
scan_to(self, f) ==
    LET pos == ScanLoop(self.tokens, self.pos, f)
    IN  IF pos > self.pos /\ pos < Len(self.tokens)
        THEN Scanned(Range(self.tokens, self.pos, pos), copy(self, pos))
        ELSE Scanned(<<>>, self)

\* TokenSlice::scan_until
scan_until(self, f) ==
    LET pos == ScanLoop(self.tokens, self.pos, f)
    IN  IF pos > self.pos /\ pos < Len(self.tokens)
        THEN Scanned(Range(self.tokens, self.pos, pos + 1), copy(self, pos))
        ELSE Scanned(<<>>, self)

\* the while loop of capture
RECURSIVE CaptureLoop(_, _, _, _, _)
CaptureLoop(inputs, pos, tokens, end, delim) ==
    IF pos < Len(inputs) /\ Index(inputs, pos).text # end
    THEN LET pushed == Append(tokens, Index(inputs, pos))
             pos1 == pos + 1
         IN  IF /\ delim # None
                /\ pos1 < Len(inputs)
                /\ Index(inputs, pos1).text = delim.some
             THEN CaptureLoop(inputs, pos1 + 1, pushed, end, delim)
             ELSE CaptureLoop(inputs, pos1, pushed, end, delim)
    ELSE Scanned(tokens, pos)

\* TokenSlice::capture
capture(self, start, end, delim) ==
    LET inputs == self.tokens
        first == Index(inputs, self.pos)
    IN  IF first = PANIC THEN PANIC
        ELSE IF first.text = start
        THEN LET loop == CaptureLoop(inputs, self.pos + 1, <<>>, end, delim)
             IN  Scanned(loop.tokens, copy(self, loop.ts))
        ELSE Scanned(<<>>, copy(self, self.pos))

\* a bool returned
Answer(b) == [answer |-> b]

\* TokenSlice::is_previous_adjacent
is_previous_adjacent(self) ==
    IF self.pos > 0
    THEN LET p1 == self.pos
             t0 == Index(self.tokens, p1 - 1)
             t1 == Index(self.tokens, p1)
         IN  IF t0 = PANIC \/ t1 = PANIC THEN PANIC
             ELSE Answer(/\ t0.line_number = t1.line_number
                         /\ t0.column_number + RawLen(t0) = t1.column_number)
    ELSE Answer(FALSE)

\* TokenSlice::is_same_line_as_previous
is_same_line_as_previous(self) ==
    IF self.pos > 0
    THEN LET p1 == self.pos
             p0 == p1 - 1
         IN  IF Index(self.tokens, p0) = PANIC \/ Index(self.tokens, p1) = PANIC
             THEN PANIC
             ELSE Answer(Index(self.tokens, p0).line_number
                           = Index(self.tokens, p1).line_number)
    ELSE Answer(FALSE)

\* TokenSlice::tail
tail(self) ==
    IF RangeInside(self.tokens, self.pos + 1, Len(self.tokens))
    THEN TokenSliceNew(Range(self.tokens, self.pos + 1, Len(self.tokens)))
    ELSE PANIC

\* the raw values of the scanned texts
ScanValues == {"(", ")", ",", "a"}

\* the predicates given to scan_to and scan_until
Predicates == {{","}, {")"}}

\* the delimiters given to capture
Delimiters == {None, Some(",")}

\* the last call on the slice ts and what it returned
ScanCall(ts, op, arg, result) == [ts |-> ts, op |-> op, arg |-> arg, result |-> result]

InitScan ==
    /\ row_data = <<>>
    /\ watermark = 0
    /\ file = <<>>
    /\ blobs = <<>>
    /\ \E raws \in UNION {ListsOf(ScanValues, n) : n \in 0..MaxTokens}, gap \in 0..1 :
          last = ScanCall(TokenSliceNew(parse_fully(raws, gap)), "new", None, None)
    /\ undo = NoUndo

\* the slice is one that new, next, previous or skip returned
Navigated == last.op \in {"new", "next", "previous", "skip"}

ScanNext ==
    /\ Navigated
    /\ last' = ScanCall(next(last.ts).ts, "next", None, next(last.ts).tok)
    /\ UNCHANGED <<row_data, watermark, file, blobs, undo>>

ScanPrevious ==
    /\ Navigated
    /\ last' = ScanCall(previous(last.ts).ts, "previous", None, previous(last.ts).tok)
    /\ UNCHANGED <<row_data, watermark, file, blobs, undo>>

ScanSkip ==
    /\ Navigated
    /\ last' = ScanCall(skip(last.ts), "skip", None, None)
    /\ UNCHANGED <<row_data, watermark, file, blobs, undo>>

\* ts.scan_to(f)
ScanTo ==
    /\ Navigated
    /\ \E f \in Predicates :
          last' = ScanCall(last.ts, "scan_to", f, scan_to(last.ts, f))
    /\ UNCHANGED <<row_data, watermark, file, blobs, undo>>

\* ts.scan_until(f)
ScanUntil ==
    /\ Navigated
    /\ \E f \in Predicates :
          last' = ScanCall(last.ts, "scan_until", f, scan_until(last.ts, f))
    /\ UNCHANGED <<row_data, watermark, file, blobs, undo>>

\* ts.capture("(", ")", delim)
Capture ==
    /\ Navigated
    /\ \E delim \in Delimiters :
          last' = ScanCall(last.ts, "capture", delim, capture(last.ts, "(", ")", delim))
    /\ UNCHANGED <<row_data, watermark, file, blobs, undo>>

\* ts.is_previous_adjacent()
IsPreviousAdjacent ==
    /\ Navigated
    /\ last' = ScanCall(last.ts, "is_previous_adjacent", None, is_previous_adjacent(last.ts))
    /\ UNCHANGED <<row_data, watermark, file, blobs, undo>>

\* ts.is_same_line_as_previous()
IsSameLineAsPrevious ==
    /\ Navigated
    /\ last' = ScanCall(last.ts, "is_same_line_as_previous", None,
                        is_same_line_as_previous(last.ts))
    /\ UNCHANGED <<row_data, watermark, file, blobs, undo>>

\* ts.tail()
TakeTail ==
    /\ Navigated
    /\ last' = ScanCall(last.ts, "tail", None, tail(last.ts))
    /\ UNCHANGED <<row_data, watermark, file, blobs, undo>>

NextScan ==
    \/ ScanNext
    \/ ScanPrevious
    \/ ScanSkip
    \/ ScanTo
    \/ ScanUntil
    \/ Capture
    \/ IsPreviousAdjacent
    \/ IsSameLineAsPrevious
    \/ TakeTail

SpecScan == InitScan /\ [][NextScan]_vars

\* the positions from p on whose token satisfies f
MatchesFrom(ts, f) ==
    {m \in ts.pos..(Len(ts.tokens) - 1) : ts.tokens[m + 1].text \in f}

\* the least member of a non-empty set of positions
Least(S) == CHOOSE i \in S : \A j \in S : i <= j

\* C22: scan_to returns the tokens at [p, m) and scan_until those at
\* [p, m], both with a slice at m, the first position from p on whose token
\* satisfies the predicate; without such a position both return no tokens
\* and the slice unchanged
ScanReturnsPrefix ==
    last.op \in {"scan_to", "scan_until"} =>
        LET ms == MatchesFrom(last.ts, last.arg)
            p == last.ts.pos
        IN  IF ms = {}
            THEN last.result = Scanned(<<>>, last.ts)
            ELSE LET m == Least(ms)
                 IN  /\ last.result.ts = copy(last.ts, m)
                     /\ last.result.tokens =
                           [i \in 1..(m - p + (IF last.op = "scan_until" THEN 1 ELSE 0))
                               |-> last.ts.tokens[p + i]]

\* the nesting depth after the tokens at positions p..m
RECURSIVE Depth(_, _, _)
Depth(tokens, p, m) ==
    IF m < p THEN 0
    ELSE Depth(tokens, p, m - 1)
           + (IF tokens[m + 1].text = "(" THEN 1
              ELSE IF tokens[m + 1].text = ")" THEN -1 ELSE 0)

\* the positions of end tokens that close the start token at p
ClosingEnds(ts) ==
    {m \in ts.pos..(Len(ts.tokens) - 1) : Depth(ts.tokens, ts.pos, m) = 0}

\* the items of a sequence that are not the delimiter
RECURSIVE Without(_, _)
Without(items, delim) ==
    IF Len(items) = 0 THEN <<>>
    ELSE IF delim # None /\ items[1].text = delim.some
         THEN Without(Tail(items), delim)
         ELSE <<items[1]>> \o Without(Tail(items), delim)

\* C23: with the cursor on a start token that has a matching end token,
\* capture returns the tokens between the two, nested pairs included,
\* without the delimiter tokens when a delimiter is given
CaptureIsBalanced ==
    (/\ last.op = "capture"
     /\ last.ts.pos < Len(last.ts.tokens)
     /\ last.ts.tokens[last.ts.pos + 1].text = "("
     /\ ClosingEnds(last.ts) # {})
        => last.result.tokens =
              Without([i \in 1..(Least(ClosingEnds(last.ts)) - last.ts.pos - 1)
                          |-> last.ts.tokens[last.ts.pos + 1 + i]],
                      last.arg)

\* C30: at every position that next, previous and skip reach, capture,
\* is_previous_adjacent, is_same_line_as_previous and tail do not index
\* outside the token vector
LookupsStayInside ==
    last.op \in {"capture", "is_previous_adjacent", "is_same_line_as_previous", "tail"}
        => last.result # PANIC

\*-------------------------------------------------------------------------
\* Interpreter (interpreter.rs) and the REPL's history (repl.rs)

\* the most calls of evaluate, or statements submitted
MaxStatements == 4

I64Value(n) == [t |-> "I64Value", v |-> <<n>>]

TableValue(rows) == [t |-> "TableValue", v |-> rows]

\* TypedValue::Function: the built-in assert
Function == [t |-> "Function", v |-> <<>>]

SetVariable(name, expr) == [e |-> "SetVariable", name |-> name, expr |-> expr]

\* Compiler::compile_script on the source texts of the model; an
\* unfinished text does not compile
compile_script(source_code) ==
    CASE source_code = "x := 5" -> Ok(<<SetVariable("x", Literal(I64Value(5)))>>)
      [] source_code = "x := 6" -> Ok(<<SetVariable("x", Literal(I64Value(6)))>>)
      [] source_code = "y := 7" -> Ok(<<SetVariable("y", Literal(I64Value(7)))>>)
      [] source_code = "x" -> Ok(<<Variable("x")>>)
      [] source_code = "y" -> Ok(<<Variable("y")>>)
      [] source_code = "history" -> Ok(<<Variable("history")>>)
      [] source_code = "history := 5" ->
           Ok(<<SetVariable("history", Literal(I64Value(5)))>>)
      [] source_code = "left('Hello World', -5)" ->
           Ok(<<FunctionCall(Variable("left"), <<>>)>>)
      [] source_code = "y := 7; left('Hello World', -5)" ->
           Ok(<<SetVariable("y", Literal(I64Value(7))),
                FunctionCall(Variable("left"), <<>>)>>)
      [] OTHER -> Err(Syntax(source_code))

\* Machine::new_platform_full: no variable is bound
new_platform_full == <<>>

\* Machine::with_variable
MachineWithVariable(machine, name, value) ==
    [k \in DOMAIN machine \cup {name} |-> IF k = name THEN value ELSE machine[k]]

\* the machine running the first n statements: the machine they leave and
\* the result of the last one, or the first failure
RECURSIVE MachineRun(_, _, _)
MachineRun(machine, opcode, n) ==
    IF n = 0 THEN [machine |-> machine, result |-> Ok(Undefined)]
    ELSE LET before == MachineRun(machine, opcode, n - 1)
             code == opcode[n]
         IN  IF "err" \in DOMAIN before.result THEN before
             ELSE CASE code.e = "SetVariable" ->
                         [machine |-> MachineWithVariable(before.machine, code.name,
                                                          code.expr.value),
                          result |-> Ok(Ack)]
                    [] code.e = "Variable" ->
                         [machine |-> before.machine,
                          result |-> IF code.name \in DOMAIN before.machine
                                     THEN Ok(before.machine[code.name])
                                     ELSE Ok(Undefined)]
                    [] OTHER ->
                         [machine |-> before.machine,
                          result |-> Err([kind |-> "Exact", detail |-> code])]

\* Machine::evaluate: the new machine and the result, or the failure
MachineEvaluate(machine, opcode) ==
    LET run == MachineRun(machine, opcode, Len(opcode))
    IN  IF "err" \in DOMAIN run.result THEN run.result
        ELSE Ok([machine |-> run.machine, result |-> run.result.ok])

\* what evaluate leaves: the interpreter's machine and the returned result
Evaluated(machine, result) == [machine |-> machine, result |-> result]

evaluateKeepingBindings(machine, source_code) ==
    LET opcode == compile_script(source_code)
    IN  IF "err" \in DOMAIN opcode THEN Evaluated(machine, opcode)
        ELSE LET run == MachineRun(machine, opcode.ok, Len(opcode.ok))
             IN  Evaluated(run.machine, run.result)

\* Interpreter::evaluate (and evaluate_async) on the interpreter's machine
evaluate(machine, source_code) ==
    LET opcode == compile_script(source_code)
    IN  IF "err" \in DOMAIN opcode THEN Evaluated(machine, opcode)
        ELSE LET outcome == MachineEvaluate(machine, opcode.ok)
             IN  IF "err" \in DOMAIN outcome THEN Evaluated(machine, outcome)
                 ELSE Evaluated(outcome.ok.machine, Ok(outcome.ok.result))

\* the source texts given to evaluate
Sources ==
    {"x := 5", "x := 6", "y := 7", "x", "y", "left('Hello World', -5)",
     "y := 7; left('Hello World', -5)", "x := ("}

\* the last call of evaluate: the machine now and before the call, the
\* source, the result and the number of calls made
InterpreterCall(machine, before, op, source_code, result, n) ==
    [machine |-> machine, before |-> before, op |-> op, source_code |-> source_code,
     result |-> result, n |-> n]

\* Interpreter::new
InitInterpreter ==
    /\ row_data = <<>>
    /\ watermark = 0
    /\ file = <<>>
    /\ blobs = <<>>
    /\ last = InterpreterCall(new_platform_full, new_platform_full, "new", "", Ok(Ack), 0)
    /\ undo = NoUndo

\* interpreter.evaluate(source_code)
Evaluate ==
    /\ last.n < MaxStatements
    /\ \E source_code \in Sources :
          LET done == evaluate(last.machine, source_code)
          IN  last' = InterpreterCall(done.machine, last.machine, "evaluate", source_code,
                                      done.result, last.n + 1)
    /\ UNCHANGED <<row_data, watermark, file, blobs, undo>>

NextInterpreter == Evaluate

SpecInterpreter == InitInterpreter /\ [][NextInterpreter]_vars

\* C28: a failed evaluate leaves the machine as it was, bindings of the
\* failing script included; a binding made by a successful evaluate is in
\* the machine, and a later evaluate of the variable returns it
FailureKeepsState ==
    last.op = "evaluate" =>
        /\ "err" \in DOMAIN last.result => last.machine = last.before
        /\ (last.source_code = "x := 5" /\ "ok" \in DOMAIN last.result)
              => ("x" \in DOMAIN last.machine /\ last.machine["x"] = I64Value(5))
        /\ (last.source_code = "x" /\ "x" \in DOMAIN last.before)
              => (last.result = Ok(last.before["x"]) /\ last.machine = last.before)

\* x is bound, and a script that binds y and then fails leaves x bound and
\* y unbound
FailureKeepsStateCase ==
    /\ last.op = "evaluate"
    /\ last.source_code = "y := 7; left('Hello World', -5)"
    /\ "err" \in DOMAIN last.result
    /\ DOMAIN last.machine = {"x"}
    /\ last.machine["x"] = I64Value(6)

\* the statements submitted to the REPL
Statements == {"x := 5", "x", "history := 5", "left('Hello World', -5)", "x := ("}

\* struct REPLState: the interpreter's machine and the prompt counter
REPLState(machine, counter) == [machine |-> machine, counter |-> counter]

\* REPLState::new
REPLStateNew == REPLState(MachineWithVariable(new_platform_full, "assert", Function), 0)

\* REPLState::create_history_table
create_history_table == TableValue(<<>>)

\* ModelRowCollection::overwrite_row at the end of the table
ModelOverwriteRow(mrc, id, row) ==
    TableValue([i \in 1..Max(Len(mrc.v), id + 1) |->
                   IF i = id + 1 THEN row ELSE mrc.v[i]])

\* put_history's clean-up of the input; the statements of the model are
\* single trimmed lines
clean_input(input) == input

\* REPLState::put_history
put_history(state, input) ==
    LET outcome == evaluate(state.machine, "history")
        found == /\ "ok" \in DOMAIN outcome.result
                 /\ outcome.result.ok.t = "TableValue"
        mrc == IF found THEN outcome.result.ok ELSE create_history_table
        id == Len(mrc.v)
        row == Row(id, <<RowsAffected(id), StringValue(clean_input(input))>>)
    IN  REPLState(MachineWithVariable(outcome.machine, "history",
                                      ModelOverwriteRow(mrc, id, row)),
                  state.counter + 1)

\* REPLState::get_history: the row ids and inputs listed
get_history(state) ==
    LET outcome == evaluate(state.machine, "history")
    IN  IF "ok" \in DOMAIN outcome.result /\ outcome.result.ok.t = "TableValue"
        THEN [i \in 1..Len(outcome.result.ok.v) |->
                 <<outcome.result.ok.v[i].id, outcome.result.ok.v[i].values[2].v>>]
        ELSE <<>>

\* process_statement on a local connection: the state it leaves and the
\* result of the statement
process_statement(state, user_input) ==
    LET recorded == put_history(state, user_input)
        done == evaluate(recorded.machine, user_input)
    IN  [state |-> REPLState(done.machine, recorded.counter), result |-> done.result]

\* the REPL after a statement: its state, the statement, the counter at its
\* submission, its result and all statements submitted so far
ReplCall(state, op, input, pid, result, submitted) ==
    [state |-> state, op |-> op, input |-> input, pid |-> pid, result |-> result,
     submitted |-> submitted]

InitRepl ==
    /\ row_data = <<>>
    /\ watermark = 0
    /\ file = <<>>
    /\ blobs = <<>>
    /\ last = ReplCall(REPLStateNew, "new", "", 0, Ok(Ack), <<>>)
    /\ undo = NoUndo

\* one round of run: read a statement and process it
ProcessStatement ==
    /\ last.state.counter < MaxStatements
    /\ \E input \in Statements :
          LET done == process_statement(last.state, input)
          IN  last' = ReplCall(done.state, "process_statement", input,
                               last.state.counter, done.result,
                               Append(last.submitted, input))
    /\ UNCHANGED <<row_data, watermark, file, blobs, undo>>

NextRepl == ProcessStatement

SpecRepl == InitRepl /\ [][NextRepl]_vars

\* C24: the history lists every statement submitted, failed ones too, in
\* submission order, each under the value the prompt counter had when it
\* was submitted, and the counter counts the statements
HistoryListsInputs ==
    /\ last.state.counter = Len(last.submitted)
    /\ get_history(last.state) =
          [i \in 1..Len(last.submitted) |-> <<i - 1, last.submitted[i]>>]

\* ---------------------------------------------------------------------
\* NumberKind::decode
\* ---------------------------------------------------------------------

\* ByteCodeCompiler::decode_u8, decode_u8x2, decode_u8x4, decode_u8x8 and
\* decode_u8x16: the n bytes of the buffer that start at the offset are
\* handed to the closure as a [u8; n]; read is the set of the positions
\* of the buffer that were taken
decode_u8xN(buffer, offset, n) ==
    [read |-> {i \in 0..(Len(buffer) - 1) : offset <= i /\ i < offset + n},
     bytes |-> Slice(buffer, offset, offset + n)]

\* NumberKind::decode; the width of each arm is the width of the array its
\* closure gives to from_be_bytes; Ack and NaN take nothing from the buffer
NumberKindDecode(kind, buffer, offset) ==
      CASE kind = "AckKind" -> decode_u8xN(buffer, offset, 0)
        [] kind = "RowIdKind" -> decode_u8xN(buffer, offset, 8)
        [] kind = "RowsAffectedKind" -> decode_u8xN(buffer, offset, 8)
        [] kind = "DateKind" -> decode_u8xN(buffer, offset, 8)
        [] kind = "F32Kind" -> decode_u8xN(buffer, offset, 4)
        [] kind = "F64Kind" -> decode_u8xN(buffer, offset, 8)
        [] kind = "I8Kind" -> decode_u8xN(buffer, offset, 1)
        [] kind = "I16Kind" -> decode_u8xN(buffer, offset, 2)
        [] kind = "I32Kind" -> decode_u8xN(buffer, offset, 4)
        [] kind = "I64Kind" -> decode_u8xN(buffer, offset, 8)
        [] kind = "I128Kind" -> decode_u8xN(buffer, offset, 16)
        [] kind = "U8Kind" -> decode_u8xN(buffer, offset, 1)
        [] kind = "U16Kind" -> decode_u8xN(buffer, offset, 2)
        [] kind = "U32Kind" -> decode_u8xN(buffer, offset, 4)
        [] kind = "U64Kind" -> decode_u8xN(buffer, offset, 8)
        [] kind = "U128Kind" -> decode_u8xN(buffer, offset, 16)
        [] kind = "UUIDKind" -> decode_u8xN(buffer, offset, 16)
        [] kind = "NaNKind" -> decode_u8xN(buffer, offset, 0)

\* a record that holds the slot of a number of the kind at the offset,
\* between the bytes of the fields before it and after it; each byte is
\* its own position, so the bytes taken tell where they were taken from
NumberRecord(kind, offset, after) ==
    [i \in 1..(offset + compute_max_physical_size(kind) + after) |-> i - 1]

\* the bytes of the record that follow the slot: another field of up to
\* 16 bytes, so that every width finds its bytes in the record
FieldsAfter == {16, 17}

NumberCall(kind, buffer, offset, op, result) ==
    [kind |-> kind, buffer |-> buffer, offset |-> offset, op |-> op, result |-> result]

InitNumber ==
    /\ row_data = <<>>
    /\ watermark = 0
    /\ file = <<>>
    /\ blobs = <<>>
    /\ \E kind \in NumberKinds, offset \in 0..MaxLen, after \in FieldsAfter :
          last = NumberCall(kind, NumberRecord(kind, offset, after), offset, "new", None)
    /\ undo = NoUndo

\* kind.decode(&buffer, offset)
DecodeNumber ==
    /\ last.op = "new"
    /\ last' = NumberCall(last.kind, last.buffer, last.offset, "decode",
                          Some(NumberKindDecode(last.kind, last.buffer, last.offset)))
    /\ UNCHANGED <<row_data, watermark, file, blobs, undo>>

NextNumber == DecodeNumber

SpecNumber == InitNumber /\ [][NextNumber]_vars

\* C29: for every NumberKind, decode takes exactly the bytes of the slot of
\* compute_max_physical_size(kind) bytes that starts at the offset, and no
\* byte of the record after that slot
DecodeReadsItsSlot ==
    last.op = "decode" =>
        last.result.some.read =
            {i \in 0..(Len(last.buffer) - 1) :
                last.offset <= i /\ i < last.offset + compute_max_physical_size(last.kind)}

====
